---------------------------- MODULE Spec2Model ----------------------------
(***************************************************************************)
(* A model of leiden-optimisation: the set overlap scorer                  *)
(* (optimisation.rs), the resolution graph builder (graph.rs), the         *)
(* grouping of cells, the mean stability of two clusterings and the best   *)
(* parent of a cluster (data.rs), and the branch trimmer, the resolution   *)
(* pool lookup and the cluster genealogy (genealogy.rs).                   *)
(*                                                                         *)
(* The program computes with f64.  The non-negative finite f64 values it   *)
(* produces are modelled bit-exactly: a value is a 53 bit mantissa m and   *)
(* an exponent e, standing for m * 2^e, and every operation rounds to      *)
(* nearest, ties to even, as IEEE-754 binary64 does.  The mantissa does    *)
(* not fit a TLC integer, so it is kept as a little-endian sequence of     *)
(* limbs of LimbBits bits.                                                 *)
(***************************************************************************)
EXTENDS Integers, Sequences, FiniteSets, TLC

---------------------------------------------------------------------------
(* Natural numbers of arbitrary size: little-endian limb sequences, no     *)
(* leading zero limb, <<>> for zero.                                       *)

LimbBits == 14
LimbBase == 2 ^ LimbBits

\* The precision of an f64: 53 significant bits.
MantissaBits == 53

Limb(a, i) == IF i >= 1 /\ i <= Len(a) THEN a[i] ELSE 0

MaxOf(x, y) == IF x >= y THEN x ELSE y

RECURSIVE BigNorm(_)
BigNorm(s) ==
  IF s = <<>> THEN s
  ELSE IF s[Len(s)] = 0 THEN BigNorm(SubSeq(s, 1, Len(s) - 1)) ELSE s

RECURSIVE BigFromNat(_)
BigFromNat(n) ==
  IF n = 0 THEN <<>> ELSE <<n % LimbBase>> \o BigFromNat(n \div LimbBase)

RECURSIVE BigAddFrom(_, _, _, _)
BigAddFrom(a, b, i, carry) ==
  IF i > MaxOf(Len(a), Len(b))
  THEN IF carry = 0 THEN <<>> ELSE <<carry>>
  ELSE LET s == Limb(a, i) + Limb(b, i) + carry
       IN  <<s % LimbBase>> \o BigAddFrom(a, b, i + 1, s \div LimbBase)

BigAdd(a, b) == BigNorm(BigAddFrom(a, b, 1, 0))

RECURSIVE BigMulSmallFrom(_, _, _, _)
BigMulSmallFrom(a, k, i, carry) ==
  IF i > Len(a)
  THEN IF carry = 0 THEN <<>> ELSE <<carry>>
  ELSE LET s == a[i] * k + carry
       IN  <<s % LimbBase>> \o BigMulSmallFrom(a, k, i + 1, s \div LimbBase)

\* a * k for 0 <= k <= LimbBase.
BigMulSmall(a, k) == BigNorm(BigMulSmallFrom(a, k, 1, 0))

RECURSIVE ColumnSum(_, _, _, _)
ColumnSum(a, b, k, i) ==
  IF i > Len(a) THEN 0
  ELSE Limb(a, i) * Limb(b, k - i + 1) + ColumnSum(a, b, k, i + 1)

RECURSIVE BigMulFrom(_, _, _, _)
BigMulFrom(a, b, k, carry) ==
  IF k > Len(a) + Len(b) THEN <<>>
  ELSE LET s == ColumnSum(a, b, k, 1) + carry
       IN  <<s % LimbBase>> \o BigMulFrom(a, b, k + 1, s \div LimbBase)

\* a * b, for factors of at most four limbs each.
BigMul(a, b) == BigNorm(BigMulFrom(a, b, 1, 0))

RECURSIVE BigDivSmallFrom(_, _, _, _)
BigDivSmallFrom(a, n, i, rem) ==
  IF i = 0 THEN [q |-> <<>>, r |-> rem]
  ELSE LET cur  == rem * LimbBase + a[i]
           rest == BigDivSmallFrom(a, n, i - 1, cur % n)
       IN  [q |-> rest.q \o <<cur \div n>>, r |-> rest.r]

BigNormQuotient(d) == [q |-> BigNorm(d.q), r |-> d.r]

\* Quotient and remainder of a by n, for 1 <= n <= LimbBase.
BigDivSmall(a, n) == BigNormQuotient(BigDivSmallFrom(a, n, Len(a), 0))

Zeros(n) == [i \in 1..n |-> 0]

\* a * 2^k.
BigShl(a, k) ==
  IF a = <<>> THEN <<>>
  ELSE Zeros(k \div LimbBits) \o BigMulSmall(a, 2 ^ (k % LimbBits))

\* floor(a / 2^k).
BigShr(a, k) ==
  IF k \div LimbBits >= Len(a) THEN <<>>
  ELSE BigDivSmall(SubSeq(a, k \div LimbBits + 1, Len(a)), 2 ^ (k % LimbBits)).q

\* Whether a mod 2^k is not zero.
BigLowNonZero(a, k) ==
  \/ \E i \in 1..(k \div LimbBits) : Limb(a, i) # 0
  \/ Limb(a, k \div LimbBits + 1) % (2 ^ (k % LimbBits)) # 0

BigTestBit(a, i) ==
  (Limb(a, i \div LimbBits + 1) \div (2 ^ (i % LimbBits))) % 2 = 1

RECURSIVE NatBitLen(_)
NatBitLen(n) == IF n = 0 THEN 0 ELSE 1 + NatBitLen(n \div 2)

BigBitLen(a) ==
  IF a = <<>> THEN 0 ELSE LimbBits * (Len(a) - 1) + NatBitLen(a[Len(a)])

RECURSIVE BigLessFrom(_, _, _)
BigLessFrom(a, b, i) ==
  IF i = 0 THEN FALSE
  ELSE IF a[i] # b[i] THEN a[i] < b[i] ELSE BigLessFrom(a, b, i - 1)

BigLess(a, b) ==
  IF Len(a) # Len(b) THEN Len(a) < Len(b) ELSE BigLessFrom(a, b, Len(a))

---------------------------------------------------------------------------
(* f64, non-negative and finite: [m, e] stands for m * 2^e, where m has    *)
(* exactly MantissaBits bits, or is <<>> (and e = 0) for 0.0.  F64NaN      *)
(* stands for NaN.                                                         *)

F64Zero == [m |-> <<>>, e |-> 0]

\* NaN, the value of 0.0 / 0.0: every comparison with it is false.
F64NaN == [m |-> <<>>, e |-> 1]

\* q, rounded to nearest with ties to even: `guard` is the bit below the
\* last bit of q and `rest` tells whether there is a non-zero bit below it.
RoundHalfEven(q, guard, rest) ==
  IF guard /\ (rest \/ BigTestBit(q, 0)) THEN BigAdd(q, <<1>>) ELSE q

\* r * 2^e, where rounding up may have carried r into one bit more.
F64Carried(r, e) ==
  IF BigBitLen(r) > MantissaBits
  THEN [m |-> BigShr(r, 1), e |-> e + 1]
  ELSE [m |-> r, e |-> e]

F64RoundLen(big, e, sticky, len) ==
  IF len = 0 THEN F64Zero
  ELSE IF len <= MantissaBits
  THEN [m |-> BigShl(big, MantissaBits - len), e |-> e - (MantissaBits - len)]
  ELSE F64Carried(RoundHalfEven(BigShr(big, len - MantissaBits),
                                BigTestBit(big, len - MantissaBits - 1),
                                BigLowNonZero(big, len - MantissaBits - 1) \/ sticky),
                  e + (len - MantissaBits))

\* The f64 nearest to big * 2^e (plus a non-zero rest below the last bit
\* of big when sticky): round to nearest, ties to even.
F64Round(big, e, sticky) == F64RoundLen(big, e, sticky, BigBitLen(big))

\* `n as f64`, exact for the sizes and counts of the model.
F64FromNat(n) == F64Round(BigFromNat(n), 0, FALSE)

F64One == F64FromNat(1)

F64Less(x, y) ==
  IF x = F64NaN \/ y = F64NaN THEN FALSE
  ELSE IF y.m = <<>> THEN FALSE
  ELSE IF x.m = <<>> THEN TRUE
  ELSE IF x.e # y.e THEN x.e < y.e
  ELSE BigLess(x.m, y.m)

F64Eq(x, y) == x # F64NaN /\ y # F64NaN /\ x = y

F64Leq(x, y) == F64Eq(x, y) \/ F64Less(x, y)

\* hi + lo for hi.e >= lo.e, neither of them zero.
F64AddOrdered(hi, lo) ==
  IF hi.e - lo.e > MantissaBits + 2 THEN hi
  ELSE F64Round(BigAdd(BigShl(hi.m, hi.e - lo.e), lo.m), lo.e, FALSE)

\* x + y.
F64Add(x, y) ==
  IF x = F64NaN \/ y = F64NaN THEN F64NaN
  ELSE IF x.m = <<>> THEN y
  ELSE IF y.m = <<>> THEN x
  ELSE F64AddOrdered(IF x.e >= y.e THEN x ELSE y, IF x.e >= y.e THEN y ELSE x)

\* x * y.
F64Mul(x, y) ==
  IF x = F64NaN \/ y = F64NaN THEN F64NaN
  ELSE IF x.m = <<>> \/ y.m = <<>> THEN F64Zero
  ELSE F64Round(BigMul(x.m, y.m), x.e + y.e, FALSE)

\* The f64 nearest to (d.q + d.r / n) * 2^e, for a remainder d.r < n.
F64FromQuotient(d, e) == F64Round(d.q, e, d.r # 0)

\* x / (n as f64), for 0 <= n <= LimbBase and x finite: 0.0 / 0.0 is NaN
\* (x / 0.0 for x > 0.0, an infinity, does not occur).
F64DivNat(x, n) ==
  IF x = F64NaN \/ n = 0 THEN F64NaN
  ELSE IF x.m = <<>> THEN F64Zero
  ELSE F64FromQuotient(BigDivSmall(BigShl(x.m, 2 * LimbBits), n), x.e - 2 * LimbBits)

---------------------------------------------------------------------------
(* Results: Ok(v), Err(msg) for a returned error, Panic(msg) for a failed  *)
(* expect.  Options: <<>> for None, <<v>> for Some(v).                     *)

Ok(v) == [tag |-> "Ok", val |-> v]
Err(msg) == [tag |-> "Err", msg |-> msg]
Panic(msg) == [tag |-> "Panic", msg |-> msg]
NoResult == [tag |-> "None"]

None == <<>>
Some(v) == <<v>>

EmptyChildCluster == "The child cluster is empty."

\* Iterator::collect(): the vector of the items of an iterator, each item
\* evaluated once.
collect(items) == items \o <<>>

\* The vector of the values of the results if every one of them is Ok, and
\* else the panic of the `expect` that a closure applies to its result.
expect_all(results, msg) ==
  IF \E i \in 1..Len(results) : results[i].tag # "Ok"
  THEN Panic(msg)
  ELSE Ok(collect([i \in 1..Len(results) |-> results[i].val]))

RECURSIVE F64SumFrom(_, _, _)
F64SumFrom(s, i, acc) ==
  IF i > Len(s) THEN acc ELSE F64SumFrom(s, i + 1, F64Add(acc, s[i]))

\* Iterator::sum::<f64>(): the left fold of + from 0.0.
F64Sum(s) == F64SumFrom(s, 1, F64Zero)

---------------------------------------------------------------------------
(* optimisation.rs: the set overlap scorer.  A cluster is a set of cell    *)
(* ids, the parent clusters are a sequence of such sets.                   *)

\* A faulty variant: the cells of either cluster are counted.
cluster_overlap_absolute_union(cluster_a, cluster_b) ==
  Cardinality(cluster_a \cup cluster_b)

cluster_overlap_absolute(cluster_a, cluster_b) ==
  Cardinality(cluster_a \cap cluster_b)

\* A faulty variant: the overlap is taken relative to the parent cluster.
cluster_overlap_relative_to_parent(cluster_parent, cluster_child) ==
  IF cluster_child = {}
  THEN Err(EmptyChildCluster)
  ELSE Ok(F64DivNat(F64FromNat(cluster_overlap_absolute(cluster_parent, cluster_child)),
                    Cardinality(cluster_parent)))

cluster_overlap_relative(cluster_parent, cluster_child) ==
  IF cluster_child = {}
  THEN Err(EmptyChildCluster)
  ELSE Ok(F64DivNat(F64FromNat(cluster_overlap_absolute(cluster_parent, cluster_child)),
                    Cardinality(cluster_child)))

\* A faulty variant: an empty list of parents is an error, too.
cluster_overlaps_relative_needs_parent(clusters_parent, cluster_child) ==
  IF cluster_child = {} \/ clusters_parent = <<>>
  THEN Err(EmptyChildCluster)
  ELSE expect_all(collect([i \in 1..Len(clusters_parent) |->
                             cluster_overlap_relative(clusters_parent[i], cluster_child)]),
                  "The child cluster cannot be empty as this has been verified before.")

cluster_overlaps_relative(clusters_parent, cluster_child) ==
  IF cluster_child = {}
  THEN Err(EmptyChildCluster)
  ELSE expect_all(collect([i \in 1..Len(clusters_parent) |->
                             cluster_overlap_relative(clusters_parent[i], cluster_child)]),
                  "The child cluster cannot be empty as this has been verified before.")

\* A faulty variant: the overlaps are not squared.
sum_of_overlaps(relative_overlaps) == F64Sum(collect(relative_overlaps))

\* optimisation.rs, lines 86 to 89: powi(2) is overlap * overlap, rounded
\* once.
sum_of_squares(relative_overlaps) ==
  F64Sum(collect([i \in 1..Len(relative_overlaps) |->
                    F64Mul(relative_overlaps[i], relative_overlaps[i])]))

\* The `?` of line 85 hands an error on.
stability_of(relative_overlaps) ==
  IF relative_overlaps.tag # "Ok"
  THEN relative_overlaps
  ELSE Ok(sum_of_squares(relative_overlaps.val))

cluster_stability(clusters_parent, cluster_child) ==
  stability_of(cluster_overlaps_relative(clusters_parent, cluster_child))

---------------------------------------------------------------------------
(* data.rs: cells, clusters, resolution data, cluster stability data.      *)

CellSample_new(id, cluster) == [id |-> id, cluster |-> cluster]

Cluster_new(cluster_id, cells, total_cell_count) ==
  [cluster_id |-> cluster_id, total_cell_count |-> total_cell_count, cells |-> cells]

Range(s) == {s[k] : k \in 1..Len(s)}

\* A faulty variant: a cluster holds the cells of its label and of every
\* label below it.
group_by_cluster_cumulative(cells, order) ==
  [k \in 1..Len(order) |->
     Cluster_new(order[k],
                 {cells[j].id : j \in {j \in 1..Len(cells) : cells[j].cluster <= order[k]}},
                 Len(cells))]

\* A faulty variant: the HashMap starts with an empty group of cells.
group_by_cluster_with_empty(cells, order) ==
  [k \in 1..Len(order) |->
     Cluster_new(order[k],
                 {cells[j].id : j \in {j \in 1..Len(cells) : cells[j].cluster = order[k]}},
                 Len(cells))]
  \o <<Cluster_new(Len(cells), {}, Len(cells))>>

\* group_by_cluster collects its clusters from a HashMap, whose iteration
\* order is unspecified: `order` is that order, a sequence that lists every
\* cluster label of the cells once.
group_by_cluster(cells, order) ==
  [k \in 1..Len(order) |->
     Cluster_new(order[k],
                 {cells[j].id : j \in {j \in 1..Len(cells) : cells[j].cluster = order[k]}},
                 Len(cells))]

ResolutionData_new(resolution, cells, order) ==
  [resolution |-> resolution, clustered_cells |-> group_by_cluster(cells, order)]

clusters(data) == Len(data.clustered_cells)

EqualClusterCounts == "The number of clusters is identical."

\* data.rs, lines 206 to 220: the stability of every child cluster, given
\* the cells of the parent clusters.
stabilities_from_cells(parent_cells, child_clusters) ==
  expect_all(collect([k \in 1..Len(child_clusters) |->
                        cluster_stability(parent_cells, child_clusters[k].cells)]),
             "The child cluster cannot be empty at this point.")

child_stabilities(parent_clusters, child_clusters) ==
  stabilities_from_cells(collect([k \in 1..Len(parent_clusters) |-> parent_clusters[k].cells]),
                         child_clusters)

(* input.rs: a row of the CSV file holds the resolution and then the       *)
(* cluster label of cell 1, 2, ...                                         *)

row_cells(labels) == [k \in 1..Len(labels) |-> CellSample_new(k, labels[k])]

RECURSIVE SortedKeys(_)
SortedKeys(keys) ==
  IF keys = {} THEN <<>>
  ELSE LET least == CHOOSE x \in keys : \A y \in keys : x <= y
       IN  <<least>> \o SortedKeys(keys \ {least})

\* The rows of an input file that the model draws: the cells are numbered
\* 1..n and are labelled with cluster ids in ascending order, each label
\* the one of the cell before it or the next one.
Labelings(n) ==
  {[k \in 1..n |-> Cardinality({c \in cuts : c < k})] : cuts \in SUBSET (1..(n - 1))}

Reverse(s) == [k \in 1..Len(s) |-> s[Len(s) + 1 - k]]

\* The iteration orders of a HashMap with these keys that the model
\* draws: ascending and descending.
KeyOrders(keys) == {SortedKeys(keys), Reverse(SortedKeys(keys))}

\* The rows of n cells, each with the order its HashMap iterates in.
Shapes(n) ==
  UNION {{<<labels, order>> : order \in KeyOrders(Range(labels))} : labels \in Labelings(n)}

\* The clusterings of n cells, as ResolutionData::new builds them.
Clusterings(resolution, n) ==
  {ResolutionData_new(resolution, row_cells(shape[1]), shape[2]) : shape \in Shapes(n)}

\* The clusterings of to_graph's arguments have NumCells cells.
NumCells == 4

RECURSIVE SetToSeq(_)
SetToSeq(S) ==
  IF S = {} THEN <<>>
  ELSE LET x == CHOOSE y \in S : TRUE IN <<x>> \o SetToSeq(S \ {x})

\* The place of x in the list, 0 if it has none.
Position(list, x) ==
  IF \E k \in 1..Len(list) : list[k] = x
  THEN CHOOSE k \in 1..Len(list) : list[k] = x
  ELSE 0

\* child_stabilities is a pure function: its values for the cluster lists
\* of the clusterings of NumCells cells are computed once and looked up.
ClusterLists ==
  SetToSeq({group_by_cluster(row_cells(shape[1]), shape[2]) : shape \in Shapes(NumCells)})

StabilitiesTable ==
  [i \in 1..Len(ClusterLists) |->
     [j \in 1..Len(ClusterLists) |-> child_stabilities(ClusterLists[i], ClusterLists[j])]]

StabilitiesAt(i, j, parent_clusters, child_clusters) ==
  IF i > 0 /\ j > 0
  THEN StabilitiesTable[i][j]
  ELSE child_stabilities(parent_clusters, child_clusters)

Stabilities(parent_clusters, child_clusters) ==
  StabilitiesAt(Position(ClusterLists, parent_clusters),
                Position(ClusterLists, child_clusters),
                parent_clusters, child_clusters)

\* data.rs, lines 221 to 227.
stability_data_of(parent_data, child_data, stabilities) ==
  IF stabilities.tag # "Ok"
  THEN stabilities
  ELSE Ok([clusters_parent   |-> clusters(parent_data),
           clusters_child    |-> clusters(child_data),
           parent_resolution |-> parent_data.resolution,
           child_resolution  |-> child_data.resolution,
           stabilities       |-> stabilities.val])

from_parent_and_child(parent_data, child_data) ==
  stability_data_of(parent_data, child_data,
                    Stabilities(parent_data.clustered_cells, child_data.clustered_cells))

\* A faulty variant: of two clusterings with as many clusters each, the
\* first is taken as the child.
from_clustering_unchecked(clustering_a, clustering_b) ==
  from_parent_and_child(
    IF clusters(clustering_a) < clusters(clustering_b) THEN clustering_a ELSE clustering_b,
    IF clusters(clustering_a) < clusters(clustering_b) THEN clustering_b ELSE clustering_a)

from_clustering(clustering_a, clustering_b) ==
  IF clusters(clustering_a) = clusters(clustering_b)
  THEN Err(EqualClusterCounts)
  ELSE from_parent_and_child(
         IF clusters(clustering_a) < clusters(clustering_b) THEN clustering_a ELSE clustering_b,
         IF clusters(clustering_a) < clusters(clustering_b) THEN clustering_b ELSE clustering_a)

\* A faulty variant: the sum of the stabilities.
sum_of_stabilities(stabilities) == F64Sum(stabilities)

\* data.rs, line 232: the sum of the stabilities by their number.
mean_of(stabilities) == F64DivNat(F64Sum(stabilities), Len(stabilities))

\* mean_of, computed once for the stabilities of StabilitiesTable.
MeanKeys ==
  SetToSeq({StabilitiesTable[i][j].val : i, j \in 1..Len(ClusterLists)})

MeanTable == [k \in 1..Len(MeanKeys) |-> mean_of(MeanKeys[k])]

MeanAt(k, stabilities) == IF k > 0 THEN MeanTable[k] ELSE mean_of(stabilities)

mean_stability(stability_data) ==
  MeanAt(Position(MeanKeys, stability_data.stabilities), stability_data.stabilities)

---------------------------------------------------------------------------
(* graph.rs: the resolution graph.  A node holds its optimal parent (an    *)
(* Rc to an immutable node) by value.  A resolution is an f64 that the     *)
(* graph only stores and compares: the model writes the resolution k.0 as  *)
(* the integer k.                                                          *)

\* A faulty variant: the depth of a root is 1.
ResolutionNode_new_depth_one(resolution, number_of_clusters) ==
  [resolution         |-> resolution,
   number_of_clusters |-> number_of_clusters,
   optimal_parent     |-> None,
   optimal_stability  |-> None,
   total_stability    |-> F64Zero,
   depth              |-> 1]

ResolutionNode_new(resolution, number_of_clusters) ==
  [resolution         |-> resolution,
   number_of_clusters |-> number_of_clusters,
   optimal_parent     |-> None,
   optimal_stability  |-> None,
   total_stability    |-> F64Zero,
   depth              |-> 0]

\* A faulty variant: the total stability of the parent is left out.
new_with_parent_edge_only(resolution, number_of_clusters, optimal_parent, optimal_stability) ==
  [resolution         |-> resolution,
   number_of_clusters |-> number_of_clusters,
   optimal_parent     |-> Some(optimal_parent),
   optimal_stability  |-> Some(optimal_stability),
   total_stability    |-> optimal_stability,
   depth              |-> optimal_parent.depth + 1]

new_with_parent(resolution, number_of_clusters, optimal_parent, optimal_stability) ==
  [resolution         |-> resolution,
   number_of_clusters |-> number_of_clusters,
   optimal_parent     |-> Some(optimal_parent),
   optimal_stability  |-> Some(optimal_stability),
   total_stability    |-> F64Add(optimal_parent.total_stability, optimal_stability),
   depth              |-> optimal_parent.depth + 1]

RECURSIVE branch(_)
branch(node) ==
  <<node>> \o (IF node.optimal_parent = None THEN <<>>
               ELSE branch(node.optimal_parent[1]))

RECURSIVE SelectByClusters(_, _)
SelectByClusters(list, number_of_clusters) ==
  IF list = <<>> THEN <<>>
  ELSE (IF clusters(Head(list)) = number_of_clusters THEN <<Head(list)>> ELSE <<>>)
       \o SelectByClusters(Tail(list), number_of_clusters)

\* A faulty variant: a resolution takes the place of the one that had its
\* number of clusters before it.
aggregate_keeping_last(list) ==
  [key \in {clusters(list[k]) : k \in 1..Len(list)} |->
     <<SelectByClusters(list, key)[Len(SelectByClusters(list, key))]>>]

\* The map from each number of clusters present to the resolutions that
\* have it, in the order of the input.
aggregate_by_number_of_clusters(list) ==
  [key \in {clusters(list[k]) : k \in 1..Len(list)} |-> SelectByClusters(list, key)]

\* A faulty variant: the candidate with the most stable last step is taken,
\* whatever the total stability of its parent.
replaces_optimal_node_greedily(potential_child_node, optimal_node) ==
  \/ optimal_node = None
  \/ F64Less(optimal_node[1].optimal_stability[1], potential_child_node.optimal_stability[1])

\* Whether the candidate replaces the current optimal node (graph.rs,
\* lines 87 to 94).  Both nodes are built for the same resolution, and it
\* is their own resolutions that line 92 compares.
replaces_optimal_node(potential_child_node, optimal_node) ==
  \/ optimal_node = None
  \/ F64Less(optimal_node[1].total_stability, potential_child_node.total_stability)
  \/ /\ F64Eq(potential_child_node.total_stability, optimal_node[1].total_stability)
     /\ potential_child_node.resolution > optimal_node[1].resolution

\* graph.rs, lines 87 to 96: the optimal node after the candidate.
updated_optimal_node(potential_child_node, optimal_node) ==
  IF replaces_optimal_node(potential_child_node, optimal_node)
  THEN Some(potential_child_node)
  ELSE optimal_node

\* graph.rs, lines 72 to 84: the candidate for a parent, or the panic of
\* the expect.
potential_child(resolution, potential_parent_node, stability_data) ==
  IF stability_data.tag = "Err"
  THEN Panic("The number of clusters cannot be equal as sorting happend beforehand.")
  ELSE IF stability_data.tag = "Panic" THEN stability_data
  ELSE Ok(new_with_parent(resolution.resolution, clusters(resolution),
                          potential_parent_node, mean_stability(stability_data.val)))

RECURSIVE optimal_node_from(_, _, _, _, _)

after_candidate(resolution, parent_nodes, previous_resolutions, k, optimal_node, candidate) ==
  IF candidate.tag # "Ok" THEN candidate
  ELSE optimal_node_from(resolution, parent_nodes, previous_resolutions, k + 1,
                         updated_optimal_node(candidate.val, optimal_node))

\* The loop over the candidate parents (graph.rs, lines 70 to 100), from
\* parent k on.
optimal_node_from(resolution, parent_nodes, previous_resolutions, k, optimal_node) ==
  IF k > Len(parent_nodes)
  THEN IF optimal_node = None
       THEN Panic("This must be set as there cannot be empty parent clustering data.")
       ELSE Ok(optimal_node[1])
  ELSE IF k > Len(previous_resolutions)
  THEN Panic("index out of bounds")
  ELSE after_candidate(resolution, parent_nodes, previous_resolutions, k, optimal_node,
                       potential_child(resolution, parent_nodes[k],
                                       from_clustering(resolution, previous_resolutions[k])))

\* The nodes of a layer if every one of them was built, and else the panic
\* that was met first.
nodes_or_panic(results) ==
  IF \E k \in 1..Len(results) : results[k].tag # "Ok"
  THEN results[CHOOSE k \in 1..Len(results) :
                 /\ results[k].tag # "Ok"
                 /\ \A j \in 1..(k - 1) : results[j].tag = "Ok"]
  ELSE Ok(collect([k \in 1..Len(results) |-> results[k].val]))

\* A faulty variant: the nodes of the first layer are collected in the
\* opposite order.
layer_nodes_reversed(layer_resolutions, first, parent_nodes, previous_resolutions) ==
  IF first
  THEN Ok(Reverse(collect([k \in 1..Len(layer_resolutions) |->
                             ResolutionNode_new(layer_resolutions[k].resolution,
                                                clusters(layer_resolutions[k]))])))
  ELSE nodes_or_panic(collect([k \in 1..Len(layer_resolutions) |->
                                 optimal_node_from(layer_resolutions[k], parent_nodes,
                                                   previous_resolutions, 1, None)]))

\* One iteration of the loop over the layers (graph.rs, lines 45 to 105):
\* the nodes of the layer, or the panic of the iteration.
layer_nodes(layer_resolutions, first, parent_nodes, previous_resolutions) ==
  IF first
  THEN Ok(collect([k \in 1..Len(layer_resolutions) |->
                     ResolutionNode_new(layer_resolutions[k].resolution,
                                        clusters(layer_resolutions[k]))]))
  ELSE nodes_or_panic(collect([k \in 1..Len(layer_resolutions) |->
                                 optimal_node_from(layer_resolutions[k], parent_nodes,
                                                   previous_resolutions, 1, None)]))

---------------------------------------------------------------------------
(* main.rs: the branch of the leaf of the greatest total stability.        *)

\* A faulty variant of max_by: min_by.
RECURSIVE min_by_total_stability(_, _, _)
min_by_total_stability(nodes, i, current) ==
  IF i > Len(nodes) THEN Ok(current)
  ELSE IF current.total_stability = F64NaN \/ nodes[i].total_stability = F64NaN
  THEN Panic("There must only be valid stabilities.")
  ELSE min_by_total_stability(nodes, i + 1,
                              IF F64Less(current.total_stability, nodes[i].total_stability)
                              THEN current ELSE nodes[i])

\* main.rs, lines 21 to 25: Iterator::max_by from node i on.  The current
\* node is kept if it compares Greater than the next node, and else the
\* next node replaces it; partial_cmp is None for NaN, and the `expect`
\* panics.
RECURSIVE max_by_total_stability(_, _, _)
max_by_total_stability(nodes, i, current) ==
  IF i > Len(nodes) THEN Ok(current)
  ELSE IF current.total_stability = F64NaN \/ nodes[i].total_stability = F64NaN
  THEN Panic("There must only be valid stabilities.")
  ELSE max_by_total_stability(nodes, i + 1,
                              IF F64Less(nodes[i].total_stability, current.total_stability)
                              THEN current ELSE nodes[i])

\* main.rs, lines 26 and 27: the branch of the node, or an empty vector if
\* there is no node.
branch_or_empty(node) ==
  IF node = None THEN Ok(<<>>)
  ELSE IF node[1].tag # "Ok" THEN node[1]
  ELSE Ok(branch(node[1].val))

\* main.rs, lines 19 to 27.
top_branch_of(nodes) ==
  branch_or_empty(IF nodes = <<>> THEN None
                  ELSE Some(max_by_total_stability(nodes, 2, nodes[1])))

---------------------------------------------------------------------------
(* optimisation.rs: the regression of the stability on the number of       *)
(* clusters.  The parameters are fitted by the Levenberg-Marquardt         *)
(* optimizer of the `compute` crate, which is no part of the repository:   *)
(* the model lets them be any of a few integer values.  For these, and     *)
(* for the thresholds of the model, the model function is computed         *)
(* exactly, as a fraction, an infinity or NaN: a finite value lies         *)
(* further from a threshold it does not equal than f64 rounds, so that     *)
(* every comparison comes out as it does in f64.                           *)

\* The data of the regression (optimisation.rs, lines 106 to 116): y holds
\* the optimal stabilities that the nodes of the branch have, x the numbers
\* of clusters of the nodes that have one.
HasStability(node) == node.optimal_stability # None

RECURSIVE regression_y(_)
regression_y(nodes) ==
  IF nodes = <<>> THEN <<>>
  ELSE (IF HasStability(Head(nodes)) THEN <<Head(nodes).optimal_stability[1]>> ELSE <<>>)
       \o regression_y(Tail(nodes))

\* A faulty variant: every node of the branch gives an x.
RECURSIVE regression_x_of_all(_)
regression_x_of_all(nodes) ==
  IF nodes = <<>> THEN <<>>
  ELSE <<Head(nodes).number_of_clusters>> \o regression_x_of_all(Tail(nodes))

RECURSIVE regression_x(_)
regression_x(nodes) ==
  IF nodes = <<>> THEN <<>>
  ELSE (IF HasStability(Head(nodes)) THEN <<Head(nodes).number_of_clusters>> ELSE <<>>)
       \o regression_x(Tail(nodes))

\* n / d in f64 arithmetic, for integers n and d (a zero d is +0.0).
Quotient(n, d) ==
  IF d > 0 THEN [kind |-> "finite", n |-> n, d |-> d]
  ELSE IF d < 0 THEN [kind |-> "finite", n |-> -n, d |-> -d]
  ELSE IF n > 0 THEN [kind |-> "inf"]
  ELSE IF n < 0 THEN [kind |-> "-inf"]
  ELSE [kind |-> "NaN"]

\* params[0] / (x * params[1] + params[2]) + params[3]: an infinity and
\* NaN stay what they are when params[3] is added.
model_function(params, x) ==
  Quotient(params[1] + params[4] * (x * params[2] + params[3]),
           x * params[2] + params[3])

predict(parameters, x) == model_function(parameters, x)

\* value >= threshold in f64, for a threshold that is the fraction n / d.
AtLeast(value, threshold) ==
  \/ value.kind = "inf"
  \/ /\ value.kind = "finite"
     /\ value.n * threshold.d >= threshold.n * value.d

---------------------------------------------------------------------------
(* genealogy.rs: the branch trimmer.                                       *)

\* Vec::sort_by is stable: a node goes behind the nodes that do not have
\* more clusters than it.
RECURSIVE insert_by_clusters(_, _)
insert_by_clusters(sorted, node) ==
  IF sorted = <<>> THEN <<node>>
  ELSE IF Head(sorted).number_of_clusters <= node.number_of_clusters
  THEN <<Head(sorted)>> \o insert_by_clusters(Tail(sorted), node)
  ELSE <<node>> \o sorted

RECURSIVE sort_by_clusters(_)
sort_by_clusters(nodes) ==
  IF nodes = <<>> THEN <<>>
  ELSE insert_by_clusters(sort_by_clusters(SubSeq(nodes, 1, Len(nodes) - 1)),
                          nodes[Len(nodes)])

\* genealogy.rs, line 178: whether the node is kept.
passes_threshold(parameters, node, threshold) ==
  AtLeast(predict(parameters, node.number_of_clusters), threshold)

---------------------------------------------------------------------------
(* data.rs: Cluster::best_parent.                                          *)

NoMatchingParent == "No parent clusters have been supplied."

\* A faulty variant of max_by: min_by.
RECURSIVE min_by_overlap(_, _, _)
min_by_overlap(items, i, current) ==
  IF i > Len(items) THEN current
  ELSE min_by_overlap(items, i + 1,
                      IF F64Less(items[i][2], current[2]) THEN items[i] ELSE current)

\* Iterator::max_by over items <<cluster_id, overlap>>, from item i on:
\* the current item is kept if it compares Greater than the next item, and
\* else the next item replaces it.  The overlaps are never NaN, so that
\* the `expect` on partial_cmp does not fail.
RECURSIVE max_by_overlap(_, _, _)
max_by_overlap(items, i, current) ==
  IF i > Len(items) THEN current
  ELSE max_by_overlap(items, i + 1,
                      IF F64Less(items[i][2], current[2]) THEN current ELSE items[i])

\* A faulty variant: without parents, the cluster 0 is the parent.
best_of_or_zero(ids, overlaps) ==
  IF overlaps.tag # "Ok" THEN overlaps
  ELSE IF ids = <<>> THEN Ok(0)
  ELSE Ok(max_by_overlap(collect([k \in 1..Len(ids) |-> <<ids[k], overlaps.val[k]>>]),
                         2, <<ids[1], overlaps.val[1]>>)[1])

\* data.rs, lines 67 to 76: the `?` on the overlaps, zip, max_by, map and
\* ok_or.
best_of(ids, overlaps) ==
  IF overlaps.tag # "Ok" THEN overlaps
  ELSE IF ids = <<>> THEN Err(NoMatchingParent)
  ELSE Ok(max_by_overlap(collect([k \in 1..Len(ids) |-> <<ids[k], overlaps.val[k]>>]),
                         2, <<ids[1], overlaps.val[1]>>)[1])

best_parent(self, potential_parents) ==
  best_of(collect([k \in 1..Len(potential_parents) |-> potential_parents[k].cluster_id]),
          cluster_overlaps_relative(
            collect([k \in 1..Len(potential_parents) |-> potential_parents[k].cells]),
            self.cells))

---------------------------------------------------------------------------
(* genealogy.rs: the cluster genealogy.                                    *)

\* Vec::sort_by is stable: the item with key keys[i] goes behind the items
\* of a smaller key and the items before it of the same key.
Rank(keys, i) ==
  Cardinality({j \in 1..Len(keys) : keys[j] < keys[i] \/ (keys[j] = keys[i] /\ j < i)}) + 1

sorted_by_key(items, keys) ==
  collect([r \in 1..Len(items) |-> items[CHOOSE i \in 1..Len(items) : Rank(keys, i) = r]])

ParentNotFound == "Parent node not found!"

ClusterGenealogyNode_new(cluster_id) == [cluster_id |-> cluster_id, child_clusters |-> <<>>]

\* A faulty variant: the child is added twice.
add_child_cluster_twice(node, child_cluster_id) ==
  [node EXCEPT !.child_clusters = Append(Append(@, child_cluster_id), child_cluster_id)]

add_child_cluster(node, child_cluster_id) ==
  [node EXCEPT !.child_clusters = Append(@, child_cluster_id)]

\* ClusterGenealogyNode::sort.
sort_children(node) ==
  [node EXCEPT !.child_clusters = sorted_by_key(@, @)]

\* A faulty variant: the nodes stay in the order they came in.
ClusterGenealogyEntry_new_unsorted(resolution_data, nodes) ==
  [number_of_clusters |-> clusters(resolution_data),
   resolution         |-> resolution_data.resolution,
   nodes              |-> collect([k \in 1..Len(nodes) |-> sort_children(nodes[k])])]

ClusterGenealogyEntry_new(resolution_data, nodes) ==
  [number_of_clusters |-> clusters(resolution_data),
   resolution         |-> resolution_data.resolution,
   nodes              |-> sorted_by_key(collect([k \in 1..Len(nodes) |-> sort_children(nodes[k])]),
                                        collect([k \in 1..Len(nodes) |-> nodes[k].cluster_id]))]

\* genealogy.rs, lines 63 to 70: the indices of data, by decreasing number
\* of clusters.
resolution_data_ordering(data) ==
  sorted_by_key(collect([k \in 1..Len(data) |-> k]),
                collect([k \in 1..Len(data) |-> 0 - clusters(data[k])]))

\* genealogy.rs, lines 75 to 79 and 86 to 95: a node without children for
\* every cluster, with the cluster.
nodes_with_clusters(clustered_cells) ==
  collect([k \in 1..Len(clustered_cells) |->
             [node    |-> ClusterGenealogyNode_new(clustered_cells[k].cluster_id),
              cluster |-> clustered_cells[k]]])

\* The nodes of the pairs of a vector.
nodes_of(pairs) == collect([k \in 1..Len(pairs) |-> pairs[k].node])

\* genealogy.rs, lines 86 to 95: the HashMap of the nodes by cluster id; of
\* two clusters with one id the later one stays.
top_nodes_of(clustered_cells) ==
  [id \in {clustered_cells[k].cluster_id : k \in 1..Len(clustered_cells)} |->
     LET last == CHOOSE k \in 1..Len(clustered_cells) :
                   /\ clustered_cells[k].cluster_id = id
                   /\ \A j \in (k + 1)..Len(clustered_cells) : clustered_cells[j].cluster_id # id
     IN  [node    |-> ClusterGenealogyNode_new(id),
          cluster |-> clustered_cells[last]]]

\* A faulty variant: the child goes to the node of the least cluster id.
with_child_of_least_parent(top_nodes, parent_id, child_cluster_id) ==
  IF parent_id.tag # "Ok" THEN parent_id
  ELSE IF parent_id.val \notin DOMAIN top_nodes THEN Err(ParentNotFound)
  ELSE Ok([top_nodes EXCEPT ![CHOOSE id \in DOMAIN top_nodes :
                                \A other \in DOMAIN top_nodes : id <= other].node =
                              add_child_cluster(@, child_cluster_id)])

\* genealogy.rs, lines 98 to 101.
with_child(top_nodes, parent_id, child_cluster_id) ==
  IF parent_id.tag # "Ok" THEN parent_id
  ELSE IF parent_id.val \notin DOMAIN top_nodes THEN Err(ParentNotFound)
  ELSE Ok([top_nodes EXCEPT ![parent_id.val].node = add_child_cluster(@, child_cluster_id)])

\* genealogy.rs, lines 96 to 102: the loop over the bottom nodes, from the
\* i-th on; the first error is returned.
RECURSIVE attach_from(_, _, _, _)
attach_from(bottom, i, parents, top_nodes) ==
  IF top_nodes.tag # "Ok" \/ i > Len(bottom) THEN top_nodes
  ELSE attach_from(bottom, i + 1, parents,
                   with_child(top_nodes.val,
                              best_parent(bottom[i].cluster, parents),
                              bottom[i].node.cluster_id))

\* HashMap::values and HashMap::into_values: the values in the order the
\* map iterates in.
values_in(top_nodes, order) == collect([k \in 1..Len(order) |-> top_nodes[order[k]]])

\* genealogy.rs: branch_to_resolution_data.  Here a resolution is an f64 of
\* the model, so that NaN is among the resolutions.

MissingResolutionInPool == "The resolution pool does not contain all branch resolutions."

\* A faulty variant: the resolutions are compared as bit patterns, so that
\* NaN is found.
find_identical(pool, resolution) ==
  IF \E k \in 1..Len(pool) : pool[k].resolution = resolution
  THEN Some(pool[CHOOSE k \in 1..Len(pool) :
                   /\ pool[k].resolution = resolution
                   /\ \A j \in 1..(k - 1) : pool[j].resolution # resolution])
  ELSE None

\* genealogy.rs, lines 157 to 159: Iterator::find, the first resolution
\* data of the pool whose resolution == the resolution.
find(pool, resolution) ==
  IF \E k \in 1..Len(pool) : F64Eq(pool[k].resolution, resolution)
  THEN Some(pool[CHOOSE k \in 1..Len(pool) :
                   /\ F64Eq(pool[k].resolution, resolution)
                   /\ \A j \in 1..(k - 1) : ~F64Eq(pool[j].resolution, resolution)])
  ELSE None

---------------------------------------------------------------------------
(* The state.                                                              *)

VARIABLES
  pc,                      \* where the program is
  \* a call of one of the scorer's functions
  sc_parents,              \* the parent clusters, a sequence of sets of cell ids
  sc_child,                \* the child cluster, a set of cell ids
  sc_index,                \* the parent handed to cluster_overlap_relative
  sc_result,               \* what the call returned
  \* to_graph
  resolutions,             \* its argument
  map,                     \* aggregate_by_number_of_clusters(resolutions)
  ordered_cluster_keys,    \* the sorted keys of map
  key_index,               \* `i`: the number of layers already built
  potential_parent_nodes,  \* the nodes of the layer built last
  previous_cluster_key,    \* the key of that layer
  result_graph,            \* what to_graph returned
  top_branch,              \* the `top_branch` of main
  \* trim_branch
  tr_branch,               \* its argument `branch`
  tr_threshold,            \* its argument `threshold`, a fraction
  tr_parameters,           \* the parameters of `regression`
  tr_sorted,               \* the local `branch`, sorted
  tr_index,                \* the number of nodes the loop has taken
  tr_x,                    \* the x vector of the regression
  tr_y,                    \* the y vector of the regression
  trimmed_branch,          \* the local `trimmed_branch`
  \* group_by_cluster and from_clustering
  dt_cells,                \* the argument `cells` of group_by_cluster
  dt_clusters,             \* what group_by_cluster returned
  dt_a,                    \* the arguments `clustering_a` and
  dt_b,                    \* `clustering_b` of from_clustering
  dt_result,               \* what from_clustering(a, b) returned
  dt_swapped,              \* what from_clustering(b, a) returned
  dt_mean,                 \* what mean_stability returned for dt_result
  \* best_parent
  bp_cluster,              \* `self`
  bp_parents,              \* its argument `potential_parents`
  bp_result,               \* what it returned
  \* from_resolution_data
  gn_data,                 \* its argument `data`
  ordered_iter,            \* the indices of data not yet taken
  bottom_nodes,            \* the nodes of the resolution taken last
  entries,                 \* the local `entries`
  gn_result,               \* what it returned
  \* branch_to_resolution_data
  br_branch,               \* its argument `branch`
  br_pool,                 \* its argument `resolutions`
  br_index,                \* the number of nodes the loop has taken
  branch_resolution_data,  \* the local `branch_resolution_data`
  br_result                \* what it returned

scorerVars == <<sc_parents, sc_child, sc_index, sc_result>>
graphVars  == <<resolutions, map, ordered_cluster_keys, key_index,
                potential_parent_nodes, previous_cluster_key, result_graph, top_branch>>
trimVars   == <<tr_branch, tr_threshold, tr_parameters, tr_sorted, tr_index,
                tr_x, tr_y, trimmed_branch>>
dataVars   == <<dt_cells, dt_clusters, dt_a, dt_b, dt_result, dt_swapped, dt_mean>>
parentVars == <<bp_cluster, bp_parents, bp_result>>
genealogyVars == <<gn_data, ordered_iter, bottom_nodes, entries, gn_result>>
poolVars   == <<br_branch, br_pool, br_index, branch_resolution_data, br_result>>
laterVars  == <<dataVars, parentVars, genealogyVars, poolVars>>
vars == <<pc, scorerVars, graphVars, trimVars, laterVars>>

ScorerIdle ==
  /\ sc_parents = <<>>
  /\ sc_child = {}
  /\ sc_index = 0
  /\ sc_result = NoResult

GraphIdle ==
  /\ resolutions = <<>>
  /\ map = <<>>
  /\ ordered_cluster_keys = <<>>
  /\ key_index = 0
  /\ potential_parent_nodes = <<>>
  /\ previous_cluster_key = None
  /\ result_graph = NoResult
  /\ top_branch = NoResult

TrimIdle ==
  /\ tr_branch = <<>>
  /\ tr_threshold = [n |-> 0, d |-> 1]
  /\ tr_parameters = <<>>
  /\ tr_sorted = <<>>
  /\ tr_index = 0
  /\ tr_x = <<>>
  /\ tr_y = <<>>
  /\ trimmed_branch = <<>>

DataIdle ==
  /\ dt_cells = <<>>
  /\ dt_clusters = NoResult
  /\ dt_a = NoResult
  /\ dt_b = NoResult
  /\ dt_result = NoResult
  /\ dt_swapped = NoResult
  /\ dt_mean = NoResult

ParentIdle ==
  /\ bp_cluster = NoResult
  /\ bp_parents = <<>>
  /\ bp_result = NoResult

GenealogyIdle ==
  /\ gn_data = <<>>
  /\ ordered_iter = <<>>
  /\ bottom_nodes = <<>>
  /\ entries = <<>>
  /\ gn_result = NoResult

PoolIdle ==
  /\ br_branch = <<>>
  /\ br_pool = <<>>
  /\ br_index = 0
  /\ branch_resolution_data = <<>>
  /\ br_result = NoResult

LaterIdle == DataIdle /\ ParentIdle /\ GenealogyIdle /\ PoolIdle

---------------------------------------------------------------------------
(* The scorer: a call of cluster_overlap_relative, of                      *)
(* cluster_overlaps_relative or of cluster_stability.                      *)

\* Any parent sets over a few cells, up to MaxParents of them ...
SmallCells == 2
MaxParents == 3
\* ... and the clusters of a clustering of ScorerCells cells.
ScorerCells == 6

SeqsUpTo(S, n) == UNION {[1..k -> S] : k \in 0..n}

ClusterCells(data) == [k \in 1..clusters(data) |-> data.clustered_cells[k].cells]

ScorerInputs ==
  (SeqsUpTo(SUBSET (1..SmallCells), MaxParents) \X SUBSET (1..SmallCells))
  \cup ({ClusterCells(data) : data \in Clusterings(1, ScorerCells)}
          \X SUBSET (1..ScorerCells))

InitScorer ==
  /\ pc = "scorer"
  /\ \E input \in ScorerInputs :
       /\ sc_parents = input[1]
       /\ sc_child = input[2]
  /\ sc_index = 0
  /\ sc_result = NoResult
  /\ GraphIdle
  /\ TrimIdle
  /\ LaterIdle

CallOverlapRelative ==
  /\ pc = "scorer"
  /\ \E k \in 1..Len(sc_parents) :
       /\ sc_index' = k
       /\ sc_result' = cluster_overlap_relative(sc_parents[k], sc_child)
  /\ pc' = "cluster_overlap_relative"
  /\ UNCHANGED <<sc_parents, sc_child, graphVars, trimVars, laterVars>>

CallOverlapsRelative ==
  /\ pc = "scorer"
  /\ sc_result' = cluster_overlaps_relative(sc_parents, sc_child)
  /\ pc' = "cluster_overlaps_relative"
  /\ UNCHANGED <<sc_parents, sc_child, sc_index, graphVars, trimVars, laterVars>>

CallStability ==
  /\ pc = "scorer"
  /\ sc_result' = cluster_stability(sc_parents, sc_child)
  /\ pc' = "cluster_stability"
  /\ UNCHANGED <<sc_parents, sc_child, sc_index, graphVars, trimVars, laterVars>>

NextScorer == CallOverlapRelative \/ CallOverlapsRelative \/ CallStability

SpecScorer == InitScorer /\ [][NextScorer]_vars

---------------------------------------------------------------------------
(* to_graph, a layer at a time.                                            *)

MaxResolutions == 4

\* Clusterings of more cells, WideCells of them, are drawn as well.
WideCells == 6

\* The lists of l rows of WideCells cells whose k-th row has k clusters.
RECURSIVE WideRowLists(_)
WideRowLists(l) ==
  IF l = 0 THEN {<<>>}
  ELSE {Append(rows, labels) :
          rows \in WideRowLists(l - 1),
          labels \in {row \in Labelings(WideCells) : Cardinality(Range(row)) = l}}

\* The arguments of to_graph.  Either up to MaxResolutions clusterings of
\* NumCells cells, sampled at ascending or at descending resolutions 1.0,
\* 2.0, ..., their HashMaps iterating all in ascending or all in
\* descending order; or MaxResolutions clusterings of WideCells cells, the
\* one of the resolution k.0 with k clusters.
InitGraph ==
  /\ pc = "to_graph"
  /\ \/ \E n \in 0..MaxResolutions, ascending \in BOOLEAN, reversed \in BOOLEAN :
          \E rows \in [1..n -> Labelings(NumCells)] :
            resolutions =
              [k \in 1..n |->
                 ResolutionData_new(IF ascending THEN k ELSE n + 1 - k,
                                    row_cells(rows[k]),
                                    IF reversed
                                    THEN Reverse(SortedKeys(Range(rows[k])))
                                    ELSE SortedKeys(Range(rows[k])))]
     \/ \E rows \in WideRowLists(MaxResolutions) :
          resolutions =
            [k \in 1..MaxResolutions |->
               ResolutionData_new(k, row_cells(rows[k]), SortedKeys(Range(rows[k])))]
  /\ map = <<>>
  /\ ordered_cluster_keys = <<>>
  /\ key_index = 0
  /\ potential_parent_nodes = <<>>
  /\ previous_cluster_key = None
  /\ result_graph = NoResult
  /\ top_branch = NoResult
  /\ ScorerIdle
  /\ TrimIdle
  /\ LaterIdle

\* graph.rs, lines 34 to 44: the map, its sorted keys, and the return of
\* an empty vector if there are none.
ToGraphAggregate ==
  /\ pc = "to_graph"
  /\ map' = aggregate_by_number_of_clusters(resolutions)
  /\ ordered_cluster_keys' = SortedKeys(DOMAIN map')
  /\ IF ordered_cluster_keys' = <<>>
     THEN /\ result_graph' = Ok(<<>>)
          /\ pc' = "returned"
     ELSE /\ result_graph' = result_graph
          /\ pc' = "layers"
  /\ UNCHANGED <<resolutions, key_index, potential_parent_nodes,
                 previous_cluster_key, top_branch, scorerVars, trimVars, laterVars>>

\* graph.rs, lines 45 to 105: one iteration of the loop over the keys.
ToGraphLayer ==
  /\ pc = "layers"
  /\ key_index < Len(ordered_cluster_keys)
  /\ \E nodes \in {layer_nodes(map[ordered_cluster_keys[key_index + 1]],
                               key_index = 0,
                               potential_parent_nodes,
                               IF previous_cluster_key = None THEN <<>>
                               ELSE map[previous_cluster_key[1]])} :
       IF nodes.tag = "Ok"
       THEN /\ potential_parent_nodes' = nodes.val
            /\ previous_cluster_key' = Some(ordered_cluster_keys[key_index + 1])
            /\ key_index' = key_index + 1
            /\ UNCHANGED <<pc, result_graph>>
       ELSE /\ result_graph' = nodes
            /\ pc' = "panicked"
            /\ UNCHANGED <<potential_parent_nodes, previous_cluster_key, key_index>>
  /\ UNCHANGED <<resolutions, map, ordered_cluster_keys, top_branch,
                 scorerVars, trimVars, laterVars>>

\* graph.rs, line 107: the nodes of the last layer are returned.
ToGraphReturn ==
  /\ pc = "layers"
  /\ key_index = Len(ordered_cluster_keys)
  /\ result_graph' = Ok(potential_parent_nodes)
  /\ pc' = "returned"
  /\ UNCHANGED <<resolutions, map, ordered_cluster_keys, key_index,
                 potential_parent_nodes, previous_cluster_key, top_branch,
                 scorerVars, trimVars, laterVars>>

NextGraph == ToGraphAggregate \/ ToGraphLayer \/ ToGraphReturn

SpecGraph == InitGraph /\ [][NextGraph]_vars

\* main.rs, lines 18 to 27: main calls to_graph for the resolution data of
\* the input file and takes the top branch of the result.
TopBranch ==
  /\ pc = "returned"
  /\ result_graph.tag = "Ok"
  /\ top_branch' = top_branch_of(result_graph.val)
  /\ pc' = IF top_branch'.tag = "Ok" THEN "top_branch" ELSE "panicked"
  /\ UNCHANGED <<resolutions, map, ordered_cluster_keys, key_index,
                 potential_parent_nodes, previous_cluster_key, result_graph,
                 scorerVars, trimVars, laterVars>>

NextMain == NextGraph \/ TopBranch

SpecMain == InitGraph /\ [][NextMain]_vars

---------------------------------------------------------------------------
(* trim_branch, a node of the sorted branch at a time.                     *)

\* The branches have nodes of 1 to MaxTrimClusters clusters.
MaxTrimClusters == 4

\* The branch of a leaf whose ancestors have the numbers of clusters in
\* `counts`: the node of c clusters has the resolution c.0, and every
\* optimal stability is 1.0.
RECURSIVE chain(_)
chain(counts) ==
  IF Len(counts) = 1
  THEN ResolutionNode_new(counts[1], counts[1])
  ELSE new_with_parent(counts[Len(counts)], counts[Len(counts)],
                       chain(SubSeq(counts, 1, Len(counts) - 1)), F64One)

\* The same branch with the optimal stability 1 / c of the node of c
\* clusters.
RECURSIVE fading_chain(_)
fading_chain(counts) ==
  IF Len(counts) = 1
  THEN ResolutionNode_new(counts[1], counts[1])
  ELSE new_with_parent(counts[Len(counts)], counts[Len(counts)],
                       fading_chain(SubSeq(counts, 1, Len(counts) - 1)),
                       F64DivNat(F64One, counts[Len(counts)]))

TrimBranches ==
  {branch(chain(SortedKeys(counts))) : counts \in (SUBSET (1..MaxTrimClusters)) \ {{}}}
  \cup {branch(fading_chain(SortedKeys(counts))) :
          counts \in (SUBSET (1..MaxTrimClusters)) \ {{}}}

\* What the optimizer may return, and the thresholds.
ParameterChoices == {0, 1} \X {0, 2} \X {-5, -4, 1} \X {0, 1}
Thresholds == {[n |-> 1, d |-> 2], [n |-> 19, d |-> 20]}

InitTrim ==
  /\ pc = "trim_branch"
  /\ tr_branch \in TrimBranches
  /\ tr_threshold \in Thresholds
  /\ tr_parameters = <<>>
  /\ tr_sorted = <<>>
  /\ tr_index = 0
  /\ tr_x = <<>>
  /\ tr_y = <<>>
  /\ trimmed_branch = <<>>
  /\ ScorerIdle
  /\ GraphIdle
  /\ LaterIdle

\* genealogy.rs, lines 173 to 176: the regression is fitted to the data of
\* the branch, and a copy of the branch is sorted.
TrimFit ==
  /\ pc = "trim_branch"
  /\ tr_x' = regression_x(tr_branch)
  /\ tr_y' = regression_y(tr_branch)
  /\ tr_parameters' \in ParameterChoices
  /\ tr_sorted' = sort_by_clusters(tr_branch)
  /\ pc' = "scan"
  /\ UNCHANGED <<tr_branch, tr_threshold, tr_index, trimmed_branch, scorerVars, graphVars, laterVars>>

\* genealogy.rs, lines 178 to 180: a node that passes is kept.
TrimKeep ==
  /\ pc = "scan"
  /\ tr_index < Len(tr_sorted)
  /\ passes_threshold(tr_parameters, tr_sorted[tr_index + 1], tr_threshold)
  /\ trimmed_branch' = Append(trimmed_branch, tr_sorted[tr_index + 1])
  /\ tr_index' = tr_index + 1
  /\ UNCHANGED <<pc, tr_branch, tr_threshold, tr_parameters, tr_sorted, tr_x, tr_y,
                 scorerVars, graphVars, laterVars>>

\* A faulty variant: a node that does not pass is left out and the loop
\* goes on, as a filter does.
TrimSkip ==
  /\ pc = "scan"
  /\ tr_index < Len(tr_sorted)
  /\ ~passes_threshold(tr_parameters, tr_sorted[tr_index + 1], tr_threshold)
  /\ tr_index' = tr_index + 1
  /\ UNCHANGED <<pc, tr_branch, tr_threshold, tr_parameters, tr_sorted, tr_x, tr_y,
                 trimmed_branch, scorerVars, graphVars, laterVars>>

\* genealogy.rs, lines 181 to 185: the first node that does not pass ends
\* the loop.
TrimBreak ==
  /\ pc = "scan"
  /\ tr_index < Len(tr_sorted)
  /\ ~passes_threshold(tr_parameters, tr_sorted[tr_index + 1], tr_threshold)
  /\ pc' = "trimmed"
  /\ UNCHANGED <<trimVars, scorerVars, graphVars, laterVars>>

\* genealogy.rs, lines 177 and 188: the loop ends with the branch.
TrimEnd ==
  /\ pc = "scan"
  /\ tr_index = Len(tr_sorted)
  /\ pc' = "trimmed"
  /\ UNCHANGED <<trimVars, scorerVars, graphVars, laterVars>>

NextTrim == TrimFit \/ TrimKeep \/ TrimBreak \/ TrimEnd

SpecTrim == InitTrim /\ [][NextTrim]_vars

---------------------------------------------------------------------------
(* data.rs: a call of group_by_cluster, or a call of from_clustering, in   *)
(* both orders of its arguments, and of mean_stability on its result.      *)

\* The cells of group_by_cluster: up to MaxGroupCells cells with ids up to
\* GroupIds (an id may come twice) and labels below DataLabels.
MaxGroupCells == 3
GroupIds == 3
DataLabels == 3
\* The rows of from_clustering's arguments have DataCells cells.
DataCells == 4

CellSamples == {CellSample_new(id, cluster) : id \in 1..GroupIds, cluster \in 0..(DataLabels - 1)}

\* Every order a HashMap with these keys may iterate in.
Orders(keys) == {order \in [1..Cardinality(keys) -> keys] : Range(order) = keys}

Labels(cells) == {cells[j].cluster : j \in 1..Len(cells)}

DataRows == [1..DataCells -> 0..(DataLabels - 1)]

\* The clusterings of a row: ResolutionData::new with either order of the
\* HashMap.
RowClusterings(resolution, row) ==
  {ResolutionData_new(resolution, row_cells(row), order) : order \in KeyOrders(Range(row))}

InitData ==
  /\ \/ /\ pc = "cells"
        /\ dt_cells \in SeqsUpTo(CellSamples, MaxGroupCells)
        /\ dt_a = NoResult
        /\ dt_b = NoResult
     \/ /\ pc = "clusterings"
        /\ dt_cells = <<>>
        /\ \E row_a \in DataRows, row_b \in DataRows :
             /\ dt_a \in RowClusterings(1, row_a)
             /\ dt_b \in RowClusterings(2, row_b)
  /\ dt_clusters = NoResult
  /\ dt_result = NoResult
  /\ dt_swapped = NoResult
  /\ dt_mean = NoResult
  /\ ScorerIdle
  /\ GraphIdle
  /\ TrimIdle
  /\ ParentIdle
  /\ GenealogyIdle
  /\ PoolIdle

\* data.rs, lines 116 to 132.
GroupByCluster ==
  /\ pc = "cells"
  /\ \E order \in Orders(Labels(dt_cells)) :
       dt_clusters' = Ok(group_by_cluster(dt_cells, order))
  /\ pc' = "grouped"
  /\ UNCHANGED <<dt_cells, dt_a, dt_b, dt_result, dt_swapped, dt_mean,
                 scorerVars, graphVars, trimVars, parentVars, genealogyVars, poolVars>>

\* data.rs, lines 193 to 228, for (a, b) and for (b, a).
FromClustering ==
  /\ pc = "clusterings"
  /\ dt_result' = from_clustering(dt_a, dt_b)
  /\ dt_swapped' = from_clustering(dt_b, dt_a)
  /\ pc' = "related"
  /\ UNCHANGED <<dt_cells, dt_clusters, dt_a, dt_b, dt_mean,
                 scorerVars, graphVars, trimVars, parentVars, genealogyVars, poolVars>>

\* data.rs, lines 231 to 233, on the data that from_clustering returned.
MeanStability ==
  /\ pc = "related"
  /\ dt_result.tag = "Ok"
  /\ dt_mean' = Ok(mean_stability(dt_result.val))
  /\ pc' = "mean"
  /\ UNCHANGED <<dt_cells, dt_clusters, dt_a, dt_b, dt_result, dt_swapped,
                 scorerVars, graphVars, trimVars, parentVars, genealogyVars, poolVars>>

NextData == GroupByCluster \/ FromClustering \/ MeanStability

SpecData == InitData /\ [][NextData]_vars

---------------------------------------------------------------------------
(* A call of Cluster::best_parent, or a call of                            *)
(* ClusterGenealogyEntry::from_resolution_data, one resolution at a step.  *)

\* The cells of the clusters handed to best_parent.
ParentCells == 3
\* from_resolution_data gets up to MaxGenealogy resolutions (rows of
\* NumCells cells, or rows without cells).
MaxGenealogy == 3

\* Three parents over nine cells and a cluster of four of the cells.
ExampleParents ==
  <<Cluster_new(0, {0, 3, 6}, 9), Cluster_new(1, {1, 4, 7}, 9), Cluster_new(2, {2, 5, 8}, 9)>>
ExampleCluster == Cluster_new(0, {0, 1, 4, 7}, 4)

\* Up to MaxParents clusters of any cells, the k-th with the id
\* MaxParents - k.
ParentLists ==
  {[k \in 1..Len(cells) |-> Cluster_new(MaxParents - k, cells[k], ParentCells)] :
     cells \in SeqsUpTo(SUBSET (1..ParentCells), MaxParents)}

BestParentInputs ==
  (ParentLists \X {Cluster_new(0, cells, ParentCells) : cells \in SUBSET (1..ParentCells)})
  \cup {<<ExampleParents, ExampleCluster>>}

GenealogyRows == Labelings(NumCells) \cup {<<>>}

InitGenealogy ==
  /\ \/ /\ pc = "cluster"
        /\ \E input \in BestParentInputs :
             /\ bp_parents = input[1]
             /\ bp_cluster = input[2]
        /\ gn_data = <<>>
     \/ /\ pc = "from_resolution_data"
        /\ bp_parents = <<>>
        /\ bp_cluster = NoResult
        /\ \E n \in 0..MaxGenealogy, reversed \in BOOLEAN :
             \E rows \in [1..n -> GenealogyRows] :
               gn_data =
                 [k \in 1..n |->
                    ResolutionData_new(k, row_cells(rows[k]),
                                       IF reversed
                                       THEN Reverse(SortedKeys(Range(rows[k])))
                                       ELSE SortedKeys(Range(rows[k])))]
  /\ bp_result = NoResult
  /\ ordered_iter = <<>>
  /\ bottom_nodes = <<>>
  /\ entries = <<>>
  /\ gn_result = NoResult
  /\ ScorerIdle
  /\ GraphIdle
  /\ TrimIdle
  /\ DataIdle
  /\ PoolIdle

\* data.rs, lines 58 to 77.
BestParent ==
  /\ pc = "cluster"
  /\ bp_result' = best_parent(bp_cluster, bp_parents)
  /\ pc' = "parent"
  /\ UNCHANGED <<bp_cluster, bp_parents, genealogyVars,
                 scorerVars, graphVars, trimVars, dataVars, poolVars>>

\* genealogy.rs, lines 58 to 60: no data, no entries.
GenealogyEmpty ==
  /\ pc = "from_resolution_data"
  /\ gn_data = <<>>
  /\ gn_result' = Ok(<<>>)
  /\ pc' = "returned"
  /\ UNCHANGED <<gn_data, ordered_iter, bottom_nodes, entries,
                 scorerVars, graphVars, trimVars, dataVars, parentVars, poolVars>>

\* genealogy.rs, lines 61 to 83: the order of the resolutions, and the
\* entry of the first of them.
GenealogyBottom ==
  /\ pc = "from_resolution_data"
  /\ gn_data # <<>>
  /\ \E ordering \in {resolution_data_ordering(gn_data)} :
       /\ ordered_iter' = Tail(ordering)
       /\ bottom_nodes' = nodes_with_clusters(gn_data[Head(ordering)].clustered_cells)
       /\ entries' = <<ClusterGenealogyEntry_new(gn_data[Head(ordering)], nodes_of(bottom_nodes'))>>
  /\ pc' = "coarser"
  /\ UNCHANGED <<gn_data, gn_result,
                 scorerVars, graphVars, trimVars, dataVars, parentVars, poolVars>>

\* genealogy.rs, lines 84 to 108: one iteration of the loop over the
\* coarser resolutions; an error of best_parent is returned.
GenealogyCoarser ==
  /\ pc = "coarser"
  /\ ordered_iter # <<>>
  /\ \E top_resolution \in {gn_data[Head(ordered_iter)]} :
       \E top_nodes \in {attach_from(bottom_nodes, 1, top_resolution.clustered_cells,
                                     Ok(top_nodes_of(top_resolution.clustered_cells)))} :
         IF top_nodes.tag # "Ok"
         THEN /\ gn_result' = top_nodes
              /\ pc' = "returned"
              /\ UNCHANGED <<ordered_iter, bottom_nodes, entries>>
         ELSE \E order \in Orders(DOMAIN top_nodes.val) :
                /\ bottom_nodes' = values_in(top_nodes.val, order)
                /\ entries' = Append(entries,
                                     ClusterGenealogyEntry_new(top_resolution,
                                                               nodes_of(bottom_nodes')))
                /\ ordered_iter' = Tail(ordered_iter)
                /\ UNCHANGED <<pc, gn_result>>
  /\ UNCHANGED <<gn_data, scorerVars, graphVars, trimVars, dataVars, parentVars, poolVars>>

\* genealogy.rs, lines 109 and 110: the entries, by number of clusters.
GenealogyReturn ==
  /\ pc = "coarser"
  /\ ordered_iter = <<>>
  /\ gn_result' = Ok(sort_by_clusters(entries))
  /\ pc' = "returned"
  /\ UNCHANGED <<gn_data, ordered_iter, bottom_nodes, entries,
                 scorerVars, graphVars, trimVars, dataVars, parentVars, poolVars>>

NextGenealogy ==
  BestParent \/ GenealogyEmpty \/ GenealogyBottom \/ GenealogyCoarser \/ GenealogyReturn

SpecGenealogy == InitGenealogy /\ [][NextGenealogy]_vars

---------------------------------------------------------------------------
(* A call of branch_to_resolution_data, one node of the branch at a step.  *)

\* A branch of up to MaxBranch nodes and a pool of up to MaxPool
\* resolutions, of the values 0.0 to MaxPoolResolution.0 and NaN.
MaxBranch == 2
MaxPool == 3
MaxPoolResolution == 2

PoolResolutions == {F64FromNat(k) : k \in 0..MaxPoolResolution} \cup {F64NaN}

\* The k-th resolution data of a pool has k cells, all in one cluster.
PoolOf(values) ==
  [k \in 1..Len(values) |-> ResolutionData_new(values[k], row_cells([j \in 1..k |-> 0]), <<0>>)]

InitPool ==
  /\ pc = "branch_to_resolution_data"
  /\ \E values \in SeqsUpTo(PoolResolutions, MaxBranch) :
       br_branch = [k \in 1..Len(values) |-> ResolutionNode_new(values[k], 1)]
  /\ \E values \in SeqsUpTo(PoolResolutions, MaxPool) : br_pool = PoolOf(values)
  /\ br_index = 0
  /\ branch_resolution_data = <<>>
  /\ br_result = NoResult
  /\ ScorerIdle
  /\ GraphIdle
  /\ TrimIdle
  /\ DataIdle
  /\ ParentIdle
  /\ GenealogyIdle

\* genealogy.rs, lines 155 to 161: the resolution data of the next node is
\* found and pushed.
PoolFound ==
  /\ pc = "branch_to_resolution_data"
  /\ br_index < Len(br_branch)
  /\ \E found \in {find(br_pool, br_branch[br_index + 1].resolution)} :
       /\ found # None
       /\ branch_resolution_data' = Append(branch_resolution_data, found[1])
  /\ br_index' = br_index + 1
  /\ UNCHANGED <<pc, br_branch, br_pool, br_result,
                 scorerVars, graphVars, trimVars, dataVars, parentVars, genealogyVars>>

\* genealogy.rs, line 160: ok_or and `?`, there is no such resolution data.
PoolMissing ==
  /\ pc = "branch_to_resolution_data"
  /\ br_index < Len(br_branch)
  /\ find(br_pool, br_branch[br_index + 1].resolution) = None
  /\ br_result' = Err(MissingResolutionInPool)
  /\ pc' = "returned"
  /\ UNCHANGED <<br_branch, br_pool, br_index, branch_resolution_data,
                 scorerVars, graphVars, trimVars, dataVars, parentVars, genealogyVars>>

\* genealogy.rs, line 163.
PoolReturn ==
  /\ pc = "branch_to_resolution_data"
  /\ br_index = Len(br_branch)
  /\ br_result' = Ok(branch_resolution_data)
  /\ pc' = "returned"
  /\ UNCHANGED <<br_branch, br_pool, br_index, branch_resolution_data,
                 scorerVars, graphVars, trimVars, dataVars, parentVars, genealogyVars>>

NextPool == PoolFound \/ PoolMissing \/ PoolReturn

SpecPool == InitPool /\ [][NextPool]_vars

---------------------------------------------------------------------------
(* to_graph for any resolution data that ResolutionData::new builds.       *)

MaxAnyResolutions == 3
\* The lists of any cells have up to MaxAnyCells cells.
MaxAnyCells == 2

\* Any resolution data of a few cells: the ids need not be distinct and
\* need not be the same in two lists, and the HashMap iterates in any
\* order.
AnyClusterings(resolution) ==
  UNION {{ResolutionData_new(resolution, cells, order) : order \in Orders(Labels(cells))} :
           cells \in SeqsUpTo(CellSamples, MaxAnyCells)}

\* The arguments of to_graph: up to MaxAnyResolutions clusterings of
\* NumCells cells or of no cells, at ascending or at descending
\* resolutions; or two clusterings of any cells.
InitGraphAny ==
  /\ pc = "to_graph"
  /\ \/ \E n \in 0..MaxAnyResolutions, ascending \in BOOLEAN, reversed \in BOOLEAN :
          \E rows \in [1..n -> GenealogyRows] :
            resolutions =
              [k \in 1..n |->
                 ResolutionData_new(IF ascending THEN k ELSE n + 1 - k,
                                    row_cells(rows[k]),
                                    IF reversed
                                    THEN Reverse(SortedKeys(Range(rows[k])))
                                    ELSE SortedKeys(Range(rows[k])))]
     \/ \E first \in AnyClusterings(1), second \in AnyClusterings(2) :
          resolutions = <<first, second>>
  /\ map = <<>>
  /\ ordered_cluster_keys = <<>>
  /\ key_index = 0
  /\ potential_parent_nodes = <<>>
  /\ previous_cluster_key = None
  /\ result_graph = NoResult
  /\ top_branch = NoResult
  /\ ScorerIdle
  /\ TrimIdle
  /\ LaterIdle

SpecGraphAny == InitGraphAny /\ [][NextGraph]_vars

---------------------------------------------------------------------------
(* Properties of the scorer (SpecScorer).                                  *)

ScorerCalled ==
  pc \in {"cluster_overlap_relative", "cluster_overlaps_relative", "cluster_stability"}

PairwiseDisjoint(sets) ==
  \A i, j \in 1..Len(sets) : i # j => sets[i] \cap sets[j] = {}

Covers(sets, set) == set \subseteq UNION Range(sets)

\* The parents that hold the whole child.
Containing(sets, set) == {i \in 1..Len(sets) : set \subseteq sets[i]}

RECURSIVE SumOfOverlapCounts(_, _)
SumOfOverlapCounts(sets, set) ==
  IF sets = <<>> THEN 0
  ELSE Cardinality(Head(sets) \cap set) + SumOfOverlapCounts(Tail(sets), set)

\* |x - 1.0| <= ulps * 2^-52, computed exactly: in units of 2^x.e, 1.0 is
\* 2^(-x.e) and the tolerance is ulps * 2^(-52 - x.e).
WithinUlpsOfOne(x, ulps) ==
  /\ x # F64NaN
  /\ x.m # <<>>
  /\ x.e <= -52
  /\ ~BigLess(BigAdd(BigShl(<<1>>, -x.e), BigShl(BigFromNat(ulps), -52 - x.e)), x.m)
  /\ ~BigLess(BigAdd(x.m, BigShl(BigFromNat(ulps), -52 - x.e)), BigShl(<<1>>, -x.e))

\* C7: each of cluster_overlap_relative, cluster_overlaps_relative and
\* cluster_stability returns the error "The child cluster is empty." if and
\* only if the child set is empty, whatever the parents are; for a child
\* that is not empty it returns a value.
C7_EmptyChildIffError ==
  ScorerCalled =>
    /\ (sc_result = Err(EmptyChildCluster)) <=> (sc_child = {})
    /\ sc_child # {} => sc_result.tag = "Ok"

\* C7: cluster_stability has returned the error for an empty child although
\* one of the parents is not empty.
C7_Witness_EmptyChild ==
  /\ pc = "cluster_stability"
  /\ sc_child = {}
  /\ \E i \in 1..Len(sc_parents) : sc_parents[i] # {}
  /\ sc_result = Err(EmptyChildCluster)

\* C8, as stated: for every list of parent sets and every child set that is
\* not empty, cluster_stability is a value in [0, 1].
C8_StabilityInUnitRange ==
  (pc = "cluster_stability" /\ sc_child # {}) =>
    /\ sc_result.tag = "Ok"
    /\ F64Leq(F64Zero, sc_result.val)
    /\ F64Leq(sc_result.val, F64One)

\* C8, corrected: for every list of pairwise disjoint parent sets and every
\* child set that is not empty, cluster_stability is a value in [0, 1].
C8_DisjointStabilityInUnitRange ==
  (pc = "cluster_stability" /\ sc_child # {} /\ PairwiseDisjoint(sc_parents)) =>
    /\ sc_result.tag = "Ok"
    /\ F64Leq(F64Zero, sc_result.val)
    /\ F64Leq(sc_result.val, F64One)

\* C8: a child split over three disjoint parents has a stability strictly
\* between 0 and 1.
C8_Witness_SplitChild ==
  /\ pc = "cluster_stability"
  /\ PairwiseDisjoint(sc_parents)
  /\ Cardinality({i \in 1..Len(sc_parents) : sc_parents[i] \cap sc_child # {}}) = 3
  /\ sc_result.tag = "Ok"
  /\ F64Less(F64Zero, sc_result.val)
  /\ F64Less(sc_result.val, F64One)

\* C9, as stated: for every list of parent sets and every child set that is
\* not empty, cluster_stability is 1.0 if and only if exactly one of the
\* parents holds the whole child.
C9_OneIffInOneParent ==
  (pc = "cluster_stability" /\ sc_child # {}) =>
    /\ sc_result.tag = "Ok"
    /\ (sc_result.val = F64One) <=> (Cardinality(Containing(sc_parents, sc_child)) = 1)

\* C9, corrected: for every list of pairwise disjoint parent sets and every
\* child set that is not empty, cluster_stability is 1.0 if and only if
\* exactly one of the parents holds the whole child.
C9_DisjointOneIffInOneParent ==
  (pc = "cluster_stability" /\ sc_child # {} /\ PairwiseDisjoint(sc_parents)) =>
    /\ sc_result.tag = "Ok"
    /\ (sc_result.val = F64One) <=> (Cardinality(Containing(sc_parents, sc_child)) = 1)

\* C9: a child inside one of several disjoint parents has the stability
\* 1.0.
C9_Witness_ChildInOneParent ==
  /\ pc = "cluster_stability"
  /\ PairwiseDisjoint(sc_parents)
  /\ Len(sc_parents) >= 2
  /\ \A i \in 1..Len(sc_parents) : sc_parents[i] # {}
  /\ Cardinality(Containing(sc_parents, sc_child)) = 1
  /\ Cardinality(sc_child) >= 2
  /\ sc_result = Ok(F64One)

\* What C10 says of a call but for the sum: one overlap for each parent, in
\* the order of the parents, that is the count of the shared cells by the
\* size of the child.
OverlapsAreQuotients ==
  /\ sc_result.tag = "Ok"
  /\ Len(sc_result.val) = Len(sc_parents)
  /\ \A i \in 1..Len(sc_parents) :
       sc_result.val[i] = F64DivNat(F64FromNat(Cardinality(sc_parents[i] \cap sc_child)),
                                    Cardinality(sc_child))

DisjointCover ==
  /\ pc = "cluster_overlaps_relative"
  /\ sc_child # {}
  /\ PairwiseDisjoint(sc_parents)
  /\ Covers(sc_parents, sc_child)

\* C10, as stated: for pairwise disjoint parents that cover a child that is
\* not empty, the overlaps of cluster_overlaps_relative, one for each parent
\* in order and each |parent \cap child| / |child|, sum to exactly 1.
C10_OverlapsSumToOne ==
  DisjointCover => (OverlapsAreQuotients /\ F64Sum(sc_result.val) = F64One)

\* C10, corrected: for such parents and child, the overlaps are one for each
\* parent in order, each the f64 quotient |parent \cap child| / |child|; the
\* counts |parent \cap child| sum to |child|, and the f64 sum of the overlaps
\* is 1 to within 2^-52 for each parent.
C10_OverlapsSumNearOne ==
  DisjointCover =>
    /\ OverlapsAreQuotients
    /\ SumOfOverlapCounts(sc_parents, sc_child) = Cardinality(sc_child)
    /\ WithinUlpsOfOne(F64Sum(sc_result.val), Len(sc_parents))

\* C10: parents that are disjoint and cover the child, and overlaps whose
\* f64 sum is not 1.0.
C10_Witness_RoundedSum ==
  /\ DisjointCover
  /\ OverlapsAreQuotients
  /\ F64Sum(sc_result.val) # F64One

---------------------------------------------------------------------------
(* Properties of to_graph (SpecGraph).                                     *)

\* The layers are built, key_index of them so far; the nodes of the last
\* one are potential_parent_nodes.
LayersBuilt == pc \in {"layers", "returned"} /\ key_index >= 1

\* The resolutions of layer l.
Layer(l) == map[ordered_cluster_keys[l]]

\* The mean stability between a resolution and one of the layer below.
EdgeStability(child, parent) == mean_stability(from_clustering(child, parent).val)

\* The chains that pick one resolution from each of the layers 1 to l.
RECURSIVE ChainsUpTo(_)
ChainsUpTo(l) ==
  IF l = 0 THEN {<<>>}
  ELSE {Append(chain_below, Layer(l)[i]) :
          chain_below \in ChainsUpTo(l - 1), i \in 1..Len(Layer(l))}

\* The f64 sum of the mean stabilities between the consecutive members of
\* a chain, taken from the lowest layer upwards.
RECURSIVE ChainTotal(_)
ChainTotal(members) ==
  IF Len(members) <= 1 THEN F64Zero
  ELSE F64Add(ChainTotal(SubSeq(members, 1, Len(members) - 1)),
              EdgeStability(members[Len(members)], members[Len(members) - 1]))

ChainTotalsTo(resolution) ==
  {ChainTotal(Append(chain_below, resolution)) : chain_below \in ChainsUpTo(key_index - 1)}

\* C1: the total stability of every node of a layer above the lowest is
\* the greatest, over the chains of one resolution from each lower layer
\* that end at the node's resolution, of the sum of the mean stabilities
\* between consecutive members of the chain.
C1_TotalStabilityIsOptimum ==
  (LayersBuilt /\ key_index >= 2) =>
    \A k \in 1..Len(potential_parent_nodes) :
      /\ potential_parent_nodes[k].total_stability \in ChainTotalsTo(Layer(key_index)[k])
      /\ \A total \in ChainTotalsTo(Layer(key_index)[k]) :
           F64Leq(total, potential_parent_nodes[k].total_stability)

\* C1: a node of the third layer or above that chains of different sums
\* end at, so that the greatest of them is a choice.
C1_Witness_ChainsDiffer ==
  /\ LayersBuilt
  /\ key_index >= 3
  /\ \E k \in 1..Len(potential_parent_nodes) :
       Cardinality(ChainTotalsTo(Layer(key_index)[k])) >= 2

\* C2: when two candidate parents of the layer below give a resolution the
\* same total stability, the node built for the resolution has the one of
\* the larger resolution for its parent: no candidate that gives the total
\* stability of the node has a larger resolution than the node's parent.
C2_TiePrefersLargerParentResolution ==
  [][(pc = "layers" /\ key_index >= 1 /\ key_index' = key_index + 1) =>
       \A k \in 1..Len(potential_parent_nodes') :
         \A j \in 1..Len(potential_parent_nodes) :
           F64Eq(F64Add(potential_parent_nodes[j].total_stability,
                        EdgeStability(Layer(key_index + 1)[k], Layer(key_index)[j])),
                 potential_parent_nodes'[k].total_stability)
             => potential_parent_nodes[j].resolution
                  <= potential_parent_nodes'[k].optimal_parent[1].resolution]_vars

\* Every node that to_graph has built: the nodes of the last layer and the
\* nodes of their branches.
NodesBuilt ==
  UNION {Range(branch(potential_parent_nodes[k])) : k \in 1..Len(potential_parent_nodes)}

\* The f64 sum of the optimal stabilities of the nodes of a branch, taken
\* in the order of the branch, from the node to its root.
RECURSIVE SumAlongBranch(_, _, _)
SumAlongBranch(nodes, i, acc) ==
  IF i > Len(nodes) THEN acc
  ELSE SumAlongBranch(nodes, i + 1,
                      IF nodes[i].optimal_stability = None THEN acc
                      ELSE F64Add(acc, nodes[i].optimal_stability[1]))

\* C3, as stated: the total stability of every node that to_graph builds
\* is the sum of the optimal stabilities of the nodes along its branch, and
\* its depth is the length of the branch less one.
C3_TotalIsSumAlongBranch ==
  LayersBuilt =>
    \A node \in NodesBuilt :
      /\ node.total_stability = SumAlongBranch(branch(node), 1, F64Zero)
      /\ node.depth = Len(branch(node)) - 1

\* C3, corrected: the total stability is that sum taken in f64 from the
\* root of the branch towards the node, the reverse of the order of the
\* branch; the depth is the length of the branch less one.
C3_TotalIsSumFromRoot ==
  LayersBuilt =>
    \A node \in NodesBuilt :
      /\ node.total_stability = SumAlongBranch(Reverse(branch(node)), 1, F64Zero)
      /\ node.depth = Len(branch(node)) - 1

\* C3: a node three steps above its root whose total stability is not the
\* f64 sum taken in the order of the branch.
C3_Witness_OrderOfSum ==
  /\ LayersBuilt
  /\ \E node \in NodesBuilt :
       /\ node.depth = 3
       /\ node.total_stability = SumAlongBranch(Reverse(branch(node)), 1, F64Zero)
       /\ node.total_stability # SumAlongBranch(branch(node), 1, F64Zero)

\* The resolutions of the layer of the most clusters, in the order of the
\* input.
TopLayer ==
  SelectByClusters(resolutions,
                   CHOOSE top \in {clusters(resolutions[k]) : k \in 1..Len(resolutions)} :
                     \A k \in 1..Len(resolutions) : clusters(resolutions[k]) <= top)

C5_BranchFromLeafToRoot ==
  (pc = "returned" /\ result_graph.tag = "Ok") =>
    \A k \in 1..Len(result_graph.val) :
      /\ branch(result_graph.val[k])[1] = result_graph.val[k]
      /\ Len(branch(result_graph.val[k])) = Len(ordered_cluster_keys)
      /\ \A i \in 1..Len(ordered_cluster_keys) :
           /\ branch(result_graph.val[k])[i].number_of_clusters
                = ordered_cluster_keys[Len(ordered_cluster_keys) + 1 - i]
           /\ \E j \in 1..Len(Layer(Len(ordered_cluster_keys) + 1 - i)) :
                Layer(Len(ordered_cluster_keys) + 1 - i)[j].resolution
                  = branch(result_graph.val[k])[i].resolution
           /\ i > 1 => branch(result_graph.val[k])[i].number_of_clusters
                         < branch(result_graph.val[k])[i - 1].number_of_clusters
           /\ IF i = Len(ordered_cluster_keys)
              THEN /\ branch(result_graph.val[k])[i].optimal_parent = None
                   /\ branch(result_graph.val[k])[i].optimal_stability = None
                   /\ branch(result_graph.val[k])[i].total_stability = F64Zero
                   /\ branch(result_graph.val[k])[i].depth = 0
              ELSE /\ branch(result_graph.val[k])[i].optimal_parent # None
                   /\ branch(result_graph.val[k])[i].optimal_stability # None

\* C5: a leaf is returned whose branch runs through four layers.
C5_Witness_FourLayers ==
  /\ pc = "returned"
  /\ result_graph.tag = "Ok"
  /\ Len(ordered_cluster_keys) = 4
  /\ \E k \in 1..Len(result_graph.val) : Len(branch(result_graph.val[k])) = 4

---------------------------------------------------------------------------
(* Properties of trim_branch (SpecTrim).                                   *)

\* The nodes in ascending order of their numbers of clusters, which differ
\* from node to node in a branch: the i-th has i - 1 nodes below it.
Ascending(nodes) ==
  [i \in 1..Len(nodes) |->
     CHOOSE node \in Range(nodes) :
       Cardinality({other \in Range(nodes) :
                      other.number_of_clusters < node.number_of_clusters}) = i - 1]

Passes(node) == passes_threshold(tr_parameters, node, tr_threshold)

---------------------------------------------------------------------------
(* Properties of the data (SpecData).                                      *)

Related == pc \in {"related", "mean"}

FewerClusters == IF clusters(dt_a) < clusters(dt_b) THEN dt_a ELSE dt_b
MoreClusters == IF clusters(dt_a) < clusters(dt_b) THEN dt_b ELSE dt_a

\* C11: from_clustering(a, b) returns the error "The number of clusters is
\* identical." if and only if a and b have as many clusters as each other;
\* otherwise it succeeds with the clustering of fewer clusters as the
\* parent and the other one as the child, and from_clustering(b, a)
\* returns the same.
C11_EqualCountsIffError ==
  Related =>
    /\ (dt_result = Err(EqualClusterCounts)) <=> (clusters(dt_a) = clusters(dt_b))
    /\ clusters(dt_a) # clusters(dt_b) =>
         /\ dt_result.tag = "Ok"
         /\ dt_result.val.clusters_parent = clusters(FewerClusters)
         /\ dt_result.val.clusters_child = clusters(MoreClusters)
         /\ dt_result.val.clusters_parent < dt_result.val.clusters_child
         /\ dt_result.val.parent_resolution = FewerClusters.resolution
         /\ dt_result.val.child_resolution = MoreClusters.resolution
    /\ dt_swapped = dt_result

\* C11: the rows 0,0,1,1 and 0,1,1,0 have two clusters each and are refused.
C11_Witness_TwoAndTwo ==
  /\ pc = "related"
  /\ {dt_a.clustered_cells[k].cells : k \in 1..clusters(dt_a)} = {{1, 2}, {3, 4}}
  /\ {dt_b.clustered_cells[k].cells : k \in 1..clusters(dt_b)} = {{1, 4}, {2, 3}}
  /\ dt_result = Err(EqualClusterCounts)

\* C12: the stabilities hold one value per cluster of the clustering with
\* more clusters, in the order of its clusters: the cluster_stability of
\* that cluster against all the clusters of the clustering with fewer
\* clusters; the mean stability is their f64 sum divided by their number.
C12_MeanOverChildClusters ==
  pc = "mean" =>
    /\ Len(dt_result.val.stabilities) = clusters(MoreClusters)
    /\ \A k \in 1..clusters(MoreClusters) :
         Ok(dt_result.val.stabilities[k])
           = cluster_stability(ClusterCells(FewerClusters),
                               MoreClusters.clustered_cells[k].cells)
    /\ dt_mean = Ok(F64DivNat(F64Sum(dt_result.val.stabilities), clusters(MoreClusters)))

\* C12: a mean over three child clusters that do not all have the same
\* stability.
C12_Witness_MixedStabilities ==
  /\ pc = "mean"
  /\ Len(dt_result.val.stabilities) = 3
  /\ \E j, k \in 1..3 : dt_result.val.stabilities[j] # dt_result.val.stabilities[k]
  /\ dt_mean.val # F64One

DistinctIds == \A i, j \in 1..Len(dt_cells) : dt_cells[i].id = dt_cells[j].id => i = j

\* What C20 says of the clusters that group_by_cluster returned.
ClustersPartitionCells ==
  LET grouped == dt_clusters.val
  IN  /\ Len(grouped) = Cardinality(Labels(dt_cells))
      /\ {grouped[k].cluster_id : k \in 1..Len(grouped)} = Labels(dt_cells)
      /\ \A k \in 1..Len(grouped) :
           /\ grouped[k].cells # {}
           /\ grouped[k].total_cell_count = Len(dt_cells)
      /\ \A j, k \in 1..Len(grouped) :
           j # k => grouped[j].cells \cap grouped[k].cells = {}
      /\ UNION {grouped[k].cells : k \in 1..Len(grouped)}
           = {dt_cells[j].id : j \in 1..Len(dt_cells)}
      /\ \A j \in 1..Len(dt_cells) : \E k \in 1..Len(grouped) :
           /\ grouped[k].cluster_id = dt_cells[j].cluster
           /\ dt_cells[j].id \in grouped[k].cells

\* C20, as stated: group_by_cluster returns one cluster per label of the
\* cells; every cluster is non-empty, the clusters are pairwise disjoint
\* and together hold exactly the ids of the cells, every cell is in the
\* cluster of its label, and every total_cell_count is the number of cells.
C20_ClustersPartitionCells ==
  pc = "grouped" => ClustersPartitionCells

\* C20, for cells with pairwise distinct ids: the same.
C20_DistinctIdsPartition ==
  pc = "grouped" /\ DistinctIds => ClustersPartitionCells

\* C20: three cells with distinct ids have been grouped into two clusters.
C20_Witness_TwoClusters ==
  /\ pc = "grouped"
  /\ DistinctIds
  /\ Len(dt_cells) = 3
  /\ Len(dt_clusters.val) = 2

---------------------------------------------------------------------------
(* Properties of best_parent and of the genealogy (SpecGenealogy).         *)

\* best_parent has been called on a cluster with cells and with parents.
ParentChosen == pc = "parent" /\ bp_cluster.cells # {} /\ bp_parents # <<>>

\* The number of cells that the k-th parent shares with the cluster: the
\* relative overlaps have one denominator, the size of the cluster.
SharedCells(k) == Cardinality(bp_parents[k].cells \cap bp_cluster.cells)

MaximalParents == {k \in 1..Len(bp_parents) : \A j \in 1..Len(bp_parents) : SharedCells(j) <= SharedCells(k)}

\* C13: best_parent, called on a cluster with cells and a list of parents
\* that is not empty, returns the id of a parent whose relative overlap
\* with the cluster is maximal among the parents.
C13_BestParentIsMaximal ==
  ParentChosen =>
    /\ bp_result.tag = "Ok"
    /\ \E k \in MaximalParents : bp_parents[k].cluster_id = bp_result.val

\* C13: of the parents {0,3,6}, {1,4,7}, {2,5,8} the cluster {0,1,4,7} got
\* {1,4,7}.
C13_Witness_Example ==
  /\ pc = "parent"
  /\ bp_parents = ExampleParents
  /\ bp_cluster = ExampleCluster
  /\ bp_result = Ok(1)

\* C14: of several parents with the maximal relative overlap, best_parent
\* returns the first one in the list.
C14_FirstOfMaximalParents ==
  ParentChosen =>
    \E k \in MaximalParents :
      /\ \A j \in MaximalParents : k <= j
      /\ bp_result = Ok(bp_parents[k].cluster_id)

NoClusters == {k \in 1..Len(gn_data) : clusters(gn_data[k]) = 0}

\* C15: best_parent, called on a cluster with cells and without parents,
\* returns the error "No parent clusters have been supplied.", and
\* from_resolution_data returns that error, and no entries, if one of its
\* resolutions has no clusters and another one has clusters.
C15_NoParentsIsAnError ==
  /\ pc = "parent" /\ bp_cluster.cells # {} /\ bp_parents = <<>>
       => bp_result = Err(NoMatchingParent)
  /\ pc = "returned" /\ NoClusters # {} /\ NoClusters # 1..Len(gn_data)
       => gn_result = Err(NoMatchingParent)

\* C15: from_resolution_data has returned the error for three resolutions,
\* the second of them without clusters.
C15_Witness_CoarserWithoutClusters ==
  /\ pc = "returned"
  /\ Len(gn_data) = 3
  /\ NoClusters = {2}
  /\ gn_result = Err(NoMatchingParent)

GenealogyBuilt == pc = "returned" /\ gn_result.tag = "Ok"

StrictlyAscending(ids) == \A i, j \in 1..Len(ids) : i < j => ids[i] < ids[j]

NodeIds(entry) == [k \in 1..Len(entry.nodes) |-> entry.nodes[k].cluster_id]

\* C17: on success from_resolution_data returns one entry per resolution
\* of its data, by ascending number of clusters; an entry holds the value
\* and the number of clusters of its resolution and one node per cluster,
\* the nodes by ascending cluster id and the children of every node by
\* ascending id.
C17_OneSortedEntryPerResolution ==
  GenealogyBuilt =>
    LET result == gn_result.val
    IN  /\ Len(result) = Len(gn_data)
        /\ \A i, j \in 1..Len(result) :
             i < j => result[i].number_of_clusters <= result[j].number_of_clusters
        /\ \A k \in 1..Len(gn_data) :
             \E i \in 1..Len(result) :
               /\ result[i].resolution = gn_data[k].resolution
               /\ \A j \in 1..Len(result) : result[j].resolution = gn_data[k].resolution => j = i
               /\ result[i].number_of_clusters = clusters(gn_data[k])
               /\ Len(result[i].nodes) = clusters(gn_data[k])
               /\ Range(NodeIds(result[i]))
                    = {gn_data[k].clustered_cells[c].cluster_id : c \in 1..clusters(gn_data[k])}
        /\ \A i \in 1..Len(result) :
             /\ StrictlyAscending(NodeIds(result[i]))
             /\ \A n \in 1..Len(result[i].nodes) :
                  StrictlyAscending(result[i].nodes[n].child_clusters)

\* C17: three entries for resolutions that were not given by ascending
\* number of clusters, one node with two children.
C17_Witness_ThreeEntries ==
  /\ GenealogyBuilt
  /\ Len(gn_result.val) = 3
  /\ clusters(gn_data[1]) > clusters(gn_data[2])
  /\ gn_data[1].clustered_cells[1].cluster_id > gn_data[1].clustered_cells[2].cluster_id
  /\ \E i \in 1..3 : \E n \in 1..Len(gn_result.val[i].nodes) :
       Len(gn_result.val[i].nodes[n].child_clusters) = 2

\* How often the id is a child of a node of the entry.
TimesChild(entry, id) ==
  Cardinality({<<n, c>> \in (1..Len(entry.nodes)) \X (1..NumCells) :
                 /\ c <= Len(entry.nodes[n].child_clusters)
                 /\ entry.nodes[n].child_clusters[c] = id})

\* What C18 says of the entries.
ChildrenAreNextFinerEntry(result) ==
  /\ result # <<>> =>
       \A n \in 1..Len(result[Len(result)].nodes) :
         result[Len(result)].nodes[n].child_clusters = <<>>
  /\ \A i \in 1..(Len(result) - 1) :
       /\ \A id \in Range(NodeIds(result[i + 1])) : TimesChild(result[i], id) = 1
       /\ \A n \in 1..Len(result[i].nodes) :
            Range(result[i].nodes[n].child_clusters) \subseteq Range(NodeIds(result[i + 1]))

DistinctClusterCounts ==
  \A j, k \in 1..Len(gn_data) : clusters(gn_data[j]) = clusters(gn_data[k]) => j = k

\* C18, as stated: the nodes of the entry with the most clusters have no
\* children, and the children of the nodes of every other entry are the
\* cluster ids of the next finer entry, each of them once.
C18_ChildrenAreNextFinerEntry ==
  GenealogyBuilt => ChildrenAreNextFinerEntry(gn_result.val)

\* C18, for resolutions of pairwise different numbers of clusters: the
\* same.
C18_DistinctCountsChildren ==
  GenealogyBuilt /\ DistinctClusterCounts => ChildrenAreNextFinerEntry(gn_result.val)

\* C18: entries of one, two and four clusters.
C18_Witness_ThreeLevels ==
  /\ GenealogyBuilt
  /\ Len(gn_result.val) = 3
  /\ gn_result.val[1].number_of_clusters = 1
  /\ gn_result.val[2].number_of_clusters = 2
  /\ gn_result.val[3].number_of_clusters = 4

\* from_resolution_data as a function of its data, where every HashMap of
\* nodes iterates by ascending cluster id.
RECURSIVE GenealogyFrom(_, _, _, _)
GenealogyFrom(resolution_data, ordering, bottom, built) ==
  IF ordering = <<>> THEN Ok(sort_by_clusters(built))
  ELSE LET top_resolution == resolution_data[Head(ordering)]
           top_nodes == attach_from(bottom, 1, top_resolution.clustered_cells,
                                    Ok(top_nodes_of(top_resolution.clustered_cells)))
       IN  IF top_nodes.tag # "Ok" THEN top_nodes
           ELSE LET next == values_in(top_nodes.val, SortedKeys(DOMAIN top_nodes.val))
                IN  GenealogyFrom(resolution_data, Tail(ordering), next,
                                  Append(built, ClusterGenealogyEntry_new(top_resolution,
                                                                          nodes_of(next))))

Genealogy(resolution_data) ==
  IF resolution_data = <<>> THEN Ok(<<>>)
  ELSE LET ordering == resolution_data_ordering(resolution_data)
           bottom == nodes_with_clusters(resolution_data[Head(ordering)].clustered_cells)
       IN  GenealogyFrom(resolution_data, Tail(ordering), bottom,
                         <<ClusterGenealogyEntry_new(resolution_data[Head(ordering)],
                                                     nodes_of(bottom))>>)

\* The data with the clusters of every resolution stored in the opposite
\* order.
StoredInReverse(resolution_data) ==
  [k \in 1..Len(resolution_data) |->
     [resolution_data[k] EXCEPT !.clustered_cells = Reverse(@)]]

\* C19: from_resolution_data returns the same for the same resolutions and
\* labels, in whatever order the clusters of a resolution are stored.
C19_SameForEveryClusterOrder ==
  pc = "returned" => gn_result = Genealogy(StoredInReverse(gn_data))

---------------------------------------------------------------------------
(* Properties of branch_to_resolution_data (SpecPool).                     *)

\* The nodes of the branch whose resolution == no resolution of the pool.
NodesNotInPool ==
  {i \in 1..Len(br_branch) :
     \A k \in 1..Len(br_pool) : ~F64Eq(br_pool[k].resolution, br_branch[i].resolution)}

\* C16: branch_to_resolution_data returns the error "The resolution pool
\* does not contain all branch resolutions." if and only if the resolution
\* of a node of the branch is == to no resolution of the pool; otherwise
\* it returns one resolution data of the pool per node, in the order of
\* the branch, each with a resolution == to the resolution of its node.
C16_MissingIffNotInPool ==
  pc = "returned" =>
    /\ (br_result = Err(MissingResolutionInPool)) <=> (NodesNotInPool # {})
    /\ NodesNotInPool = {} =>
         /\ br_result.tag = "Ok"
         /\ Len(br_result.val) = Len(br_branch)
         /\ \A i \in 1..Len(br_branch) :
              /\ br_result.val[i] \in Range(br_pool)
              /\ F64Eq(br_result.val[i].resolution, br_branch[i].resolution)

\* C16: a branch with the resolution NaN is not found in a pool with the
\* resolution NaN.
C16_Witness_NaN ==
  /\ pc = "returned"
  /\ \E i \in 1..Len(br_branch) : br_branch[i].resolution = F64NaN
  /\ \E k \in 1..Len(br_pool) : br_pool[k].resolution = F64NaN
  /\ \A i \in 1..Len(br_branch) : \E k \in 1..Len(br_pool) :
       br_pool[k].resolution = br_branch[i].resolution
  /\ br_result = Err(MissingResolutionInPool)

---------------------------------------------------------------------------
(* Further properties of to_graph (SpecGraph).                             *)

\* An iteration of the loop over the layers, not the first one, is about
\* to start.
LayerStarts == pc = "layers" /\ key_index >= 1 /\ key_index < Len(ordered_cluster_keys)

\* C21: when an iteration of the loop over the layers starts, after the
\* first one, the candidate parent nodes are as many as the resolutions of
\* the layer before, and the i-th node has the resolution and the number
\* of clusters of the i-th of them; so the optimal stability of a node is
\* the mean stability between its resolution and the resolution of its
\* optimal parent.
C21_ParentsAlignedWithResolutions ==
  /\ LayerStarts =>
       /\ Len(potential_parent_nodes) = Len(map[previous_cluster_key[1]])
       /\ \A i \in 1..Len(potential_parent_nodes) :
            /\ potential_parent_nodes[i].resolution = map[previous_cluster_key[1]][i].resolution
            /\ potential_parent_nodes[i].number_of_clusters
                 = clusters(map[previous_cluster_key[1]][i])
  /\ (LayersBuilt /\ key_index >= 2) =>
       \A k \in 1..Len(potential_parent_nodes) :
         \E i \in 1..Len(Layer(key_index - 1)) :
           /\ potential_parent_nodes[k].optimal_parent[1].resolution
                = Layer(key_index - 1)[i].resolution
           /\ potential_parent_nodes[k].optimal_stability[1]
                = EdgeStability(Layer(key_index)[k], Layer(key_index - 1)[i])

\* C21: an iteration starts with two candidate parents whose stabilities
\* to a resolution of the layer differ.
C21_Witness_TwoCandidates ==
  /\ LayerStarts
  /\ Len(potential_parent_nodes) >= 2
  /\ \E r \in 1..Len(Layer(key_index + 1)) :
       EdgeStability(Layer(key_index + 1)[r], Layer(key_index)[1])
         # EdgeStability(Layer(key_index + 1)[r], Layer(key_index)[2])

---------------------------------------------------------------------------
(* Properties of to_graph for any resolution data (SpecGraphAny).          *)

\* The resolutions of the layer that the iteration about to start builds,
\* and of the layer before it.
NextLayer == map[ordered_cluster_keys[key_index + 1]]
PreviousLayer == map[previous_cluster_key[1]]

\* C22: to_graph reaches none of its panics, whatever resolution data it
\* is given: it is in its loop or has returned a list of nodes, and when
\* an iteration after the first starts, the resolutions of the layer have
\* another number of clusters than those of the layer before, none of
\* their clusters is empty, every candidate parent has a resolution of
\* the layer before at its index, and there is a candidate parent.
C22_NoPanicReached ==
  /\ pc \in {"to_graph", "layers", "returned"}
  /\ result_graph.tag # "Panic"
  /\ pc = "returned" => result_graph.tag = "Ok"
  /\ pc = "layers" => key_index <= Len(ordered_cluster_keys)
  /\ LayerStarts =>
       /\ \A r \in 1..Len(NextLayer) :
            /\ \A p \in 1..Len(PreviousLayer) :
                 clusters(NextLayer[r]) # clusters(PreviousLayer[p])
            /\ \A c \in 1..clusters(NextLayer[r]) :
                 NextLayer[r].clustered_cells[c].cells # {}
       /\ Len(potential_parent_nodes) <= Len(PreviousLayer)
       /\ Len(potential_parent_nodes) >= 1

\* C22: to_graph has returned the nodes of a second or later layer for
\* resolution data that holds a resolution built from no cells.
C22_Witness_ZeroItemResolution ==
  /\ pc = "returned"
  /\ \E k \in 1..Len(resolutions) : clusters(resolutions[k]) = 0
  /\ Len(ordered_cluster_keys) >= 2
  /\ result_graph.tag = "Ok"
  /\ result_graph.val # <<>>

---------------------------------------------------------------------------
(* Further properties of trim_branch (SpecTrim).                           *)

\* The nodes of the branch that have a parent, in the order of the branch,
\* and the root, which is the last node of a branch.
NonRootNodes == SelectSeq(tr_branch, LAMBDA node : node.optimal_parent # None)
Root == tr_branch[Len(tr_branch)]

\* C23: the regression is fitted to the numbers of clusters and the
\* optimal stabilities of the nodes of the branch that are not the root,
\* and the root is tested against the threshold as every node is: the
\* result holds nodes of the branch in strictly ascending order of their
\* numbers of clusters, it is empty if the prediction for the root does
\* not reach the threshold, and else its first node is the root.
C23_FittedWithoutRootScannedWithRoot ==
  /\ pc \in {"scan", "trimmed"} =>
       /\ Len(tr_x) = Len(NonRootNodes)
       /\ Len(tr_y) = Len(NonRootNodes)
       /\ \A i \in 1..Len(NonRootNodes) :
            /\ tr_x[i] = NonRootNodes[i].number_of_clusters
            /\ tr_y[i] = NonRootNodes[i].optimal_stability[1]
       /\ \A i \in 1..Len(tr_x) : tr_x[i] # Root.number_of_clusters
  /\ pc = "trimmed" =>
       /\ Range(trimmed_branch) \subseteq Range(tr_branch)
       /\ \A i \in 1..(Len(trimmed_branch) - 1) :
            trimmed_branch[i].number_of_clusters < trimmed_branch[i + 1].number_of_clusters
       /\ IF Passes(Root)
          THEN trimmed_branch # <<>> /\ trimmed_branch[1] = Root
          ELSE trimmed_branch = <<>>

\* C23: the prediction for the root is below the threshold and the result
\* is empty, though the regression had data and a later node of the branch
\* is not below the threshold.
C23_Witness_RootBelowThreshold ==
  /\ pc = "trimmed"
  /\ Len(tr_x) >= 2
  /\ tr_y[1] # tr_y[2]
  /\ ~Passes(Root)
  /\ trimmed_branch = <<>>
  /\ \E i \in 1..Len(tr_branch) : Passes(tr_branch[i])

---------------------------------------------------------------------------
(* Further properties of from_resolution_data (SpecGenealogy).             *)

\* Every cluster of the finer resolution is a subset of one cluster of
\* the coarser resolution, and of no other.
ContainedInOne(finer, coarser) ==
  \A c \in 1..clusters(finer) :
    Cardinality({p \in 1..clusters(coarser) :
                   finer.clustered_cells[c].cells \subseteq coarser.clustered_cells[p].cells}) = 1

\* The resolutions of the data from the finest to the coarsest, as
\* from_resolution_data takes them.
FinestFirst(data) ==
  [i \in 1..Len(data) |-> data[resolution_data_ordering(data)[i]]]

NestedPartitions(ordered) ==
  \A i \in 1..(Len(ordered) - 1) : ContainedInOne(ordered[i], ordered[i + 1])

\* The entry of the resolution.
EntryOf(result, resolution) ==
  result[CHOOSE i \in 1..Len(result) : result[i].resolution = resolution.resolution]

\* The ids of the clusters of the finer resolution that are subsets of the
\* cluster of the coarser resolution with this id.
ContainedIds(finer, coarser, cluster_id) ==
  {finer.clustered_cells[c].cluster_id :
     c \in {c \in 1..clusters(finer) :
              \E p \in 1..clusters(coarser) :
                /\ coarser.clustered_cells[p].cluster_id = cluster_id
                /\ finer.clustered_cells[c].cells \subseteq coarser.clustered_cells[p].cells}}

ChildrenAreContained(ordered, result) ==
  \A i \in 1..(Len(ordered) - 1) :
    \A n \in 1..Len(EntryOf(result, ordered[i + 1]).nodes) :
      Range(EntryOf(result, ordered[i + 1]).nodes[n].child_clusters)
        = ContainedIds(ordered[i], ordered[i + 1],
                       EntryOf(result, ordered[i + 1]).nodes[n].cluster_id)

\* C24: for resolutions that are nested partitions, from_resolution_data
\* succeeds, and the children of a node are the ids of the clusters of
\* the next finer resolution that are subsets of the node's cluster: the
\* id of a finer cluster is a child of the coarser cluster that contains
\* it and of no other.
C24_ChildOfContainingCluster ==
  (pc = "returned" /\ NestedPartitions(FinestFirst(gn_data))) =>
    /\ gn_result.tag = "Ok"
    /\ ChildrenAreContained(FinestFirst(gn_data), gn_result.val)

\* C24: a genealogy of nested partitions into one, two and three or four
\* clusters, given coarsest first, the clusters stored by descending id.
C24_Witness_NestedThreeLevels ==
  /\ GenealogyBuilt
  /\ Len(gn_data) = 3
  /\ NestedPartitions(FinestFirst(gn_data))
  /\ clusters(gn_data[1]) = 1
  /\ clusters(gn_data[2]) = 2
  /\ clusters(gn_data[3]) >= 3
  /\ gn_data[2].clustered_cells[1].cluster_id > gn_data[2].clustered_cells[2].cluster_id
  /\ \E n \in 1..2 : Len(EntryOf(gn_result.val, gn_data[2]).nodes[n].child_clusters) >= 2

---------------------------------------------------------------------------
(* Properties of the top branch of main (SpecMain).                        *)

\* The f64 sums of the mean stabilities along the chains that pick one
\* resolution from every layer.
FullChainTotals == {ChainTotal(members) : members \in ChainsUpTo(Len(ordered_cluster_keys))}

\* The branch is the branch of a leaf whose total stability no leaf
\* exceeds.
BranchOfGreatestLeaf(leaves, nodes) ==
  \E k \in 1..Len(leaves) :
    /\ nodes = branch(leaves[k])
    /\ \A j \in 1..Len(leaves) : F64Leq(leaves[j].total_stability, leaves[k].total_stability)

\* The branch has a node of every layer, from the leaf down to a root, and
\* the total stability of its leaf is the greatest of the sums of the full
\* chains.
GreatestFullChain(nodes, totals) ==
  /\ Len(nodes) = Len(ordered_cluster_keys)
  /\ nodes[Len(nodes)].optimal_parent = None
  /\ \A i \in 1..Len(nodes) :
       nodes[i].number_of_clusters = ordered_cluster_keys[Len(nodes) + 1 - i]
  /\ nodes[1].total_stability \in totals
  /\ \A total \in totals : F64Leq(total, nodes[1].total_stability)

\* C25: main never panics on the way to its top branch; the top branch is
\* the branch of a leaf that to_graph returned whose total stability is
\* the greatest of the leaves, a chain through every layer whose sum of
\* stabilities is the greatest of all such chains; and it is empty if
\* to_graph returned no leaves.
C25_TopBranchOfGreatestLeaf ==
  /\ pc # "panicked"
  /\ pc = "top_branch" =>
       /\ top_branch.tag = "Ok"
       /\ IF result_graph.val = <<>>
          THEN top_branch.val = <<>>
          ELSE /\ BranchOfGreatestLeaf(result_graph.val, top_branch.val)
               /\ GreatestFullChain(top_branch.val, FullChainTotals)

\* C25: the top branch is taken of two leaves above two lower layers, and
\* the first leaf has the greater total stability.
C25_Witness_FirstLeafIsGreatest ==
  /\ pc = "top_branch"
  /\ Len(result_graph.val) = 2
  /\ Len(ordered_cluster_keys) = 3
  /\ F64Less(result_graph.val[2].total_stability, result_graph.val[1].total_stability)
  /\ top_branch.val = branch(result_graph.val[1])

====
